---- MODULE Spec2Model ----
(***************************************************************************)
(* Adaptive cost-grid pathfinding and reinforcement engine.                *)
(*                                                                         *)
(* The repository holds three versions of the worker script:               *)
(*   "worker"  src/worker.js            (iteration limit, direction codes) *)
(*   "main2"   src/main.js  344..1080   (minimum cycle time, usage reset)  *)
(*   "main3"   src/main.js 1081..1899   (regions, loadRegion)              *)
(* and two versions of the page script that consumes its events            *)
(* (src/main.js 1..343 and src/unnamed/part_000), which follow the same    *)
(* message protocol.  The variable `variant` names the worker version.     *)
(*                                                                         *)
(* Numbers.  Costs and distances are exact integers in units of 1/Scale,   *)
(* with Math.SQRT2 taken as the convergent 1393/985.  The Float32Array     *)
(* that holds the tentative distances rounds every stored value, while the *)
(* candidate newDist is a float64: a candidate that equals the stored      *)
(* distance in exact arithmetic can compare smaller in the code.  That     *)
(* outcome is taken nondeterministically (see Relax).                      *)
(***************************************************************************)
EXTENDS Integers, Sequences, FiniteSets, Bags, TLC

VARIABLES
    variant,            \* which worker script runs
    width, height,      \* state.map.width, state.map.height
    elevationGrid,      \* state.map.elevationGrid  (<<>> while null)
    roadUsageGrid,      \* state.map.roadUsageGrid  (<<>> while null)
    cityInfluenceGrid,  \* state.map.cityInfluenceGrid (<<>> while null)
    cities,             \* state.cities
    currentRegion,      \* state.currentRegion (main3)
    data,               \* the files setup fetches: cities and map raster
    fp,                 \* the activation of findPath (its locals)
    loops,              \* the activations of setup().then(simulationLoop)
    nextPathResolver,   \* 0 for null, else the loop whose promise it resolves
    toWorker,           \* messages posted to the worker, not yet handled
    toMain,             \* events posted by the worker, not yet handled
    page,               \* the page script: start button, running animations
    hist                \* history of the run (not program state)

vars == <<variant, width, height, elevationGrid, roadUsageGrid,
          cityInfluenceGrid, cities, currentRegion, data, fp, loops,
          nextPathResolver, toWorker, toMain, page, hist>>

----------------------------------------------------------------------------
(* Program constants *)

SQRT2_NUM == 1393
SQRT2_DEN == 985
\* one cost unit; 2000 makes 0.5, 0.1, 0.025 and 0.6 exact
Scale == 2000 * SQRT2_DEN
Infinity == 2147483647
WATER == -1
UNSET == 255
USAGE_MAX == 65535
maxUses == 12
\* per-use discount 0.025 = 1/40
usesDivisor == 40
waterCost == 15
waterCostUsa == 3
uphillFactor == 5
uphillFactorUsa == 2
\* downhillFactor 0.5 and 0.3, in tenths
downhillTenths == 5
downhillTenthsUsa == 3
\* 1 - cityFactor, in fifths: 1 - 0.40 and 1 - 0.8
cityKeepFifthsWorker == 3
cityKeepFifthsMain == 1
highCostThreshold == 80
searchRadiusWorker == 50
searchRadiusMain == 5
cityThresholdWorker == 50
cityThresholdMain == 15
waterThreshold == 10
\* progress batches: base and cap of the batch size, and the number of
\* processed pixels per unit of growth (searches of at most 1000 pixels
\* between the endpoints)
baseFrequency == 2000
maxFrequency == 50000
baseUpdateFrequency == 100
maxUpdateFrequency == 1000
growthDivisor == 1000

----------------------------------------------------------------------------
(* Bounds of the exploration *)

\* findingPath events per run
MaxSearches == 2
\* start messages per run
MaxStarts == 2
\* readyForNextPath messages the free environment sends per run
MaxReady == 2
\* loadRegion messages the environment posts
MaxLoads == 1

----------------------------------------------------------------------------

Min(a, b) == IF a < b THEN a ELSE b
Max(a, b) == IF a > b THEN a ELSE b
Abs(a) == IF a < 0 THEN -a ELSE a

\* grids are flat arrays indexed y*width + x from 0
At(g, p) == g[p + 1]
\* an index outside a typed array reads undefined, and a write to it is
\* ignored
InArray(g, p) == p >= 0 /\ p < Len(g)
Put(g, p, val) == IF InArray(g, p) THEN [g EXCEPT ![p + 1] = val] ELSE g
Pixels(w, h) == 0 .. (w * h - 1)

----------------------------------------------------------------------------
(* getNeighbors *)

Offsets ==
    << <<-1, -1>>, <<-1, 0>>, <<-1, 1>>,
       << 0, -1>>,            << 0, 1>>,
       << 1, -1>>, << 1, 0>>, << 1, 1>> >>

NeighborAt(index, w, o) ==
    [index |-> ((index \div w) + o[1]) * w + ((index % w) + o[2]),
     isDiagonal |-> (o[1] # 0 /\ o[2] # 0),
     i |-> o[1], j |-> o[2]]

InGrid(index, w, h, o) ==
    LET nx == (index % w) + o[2]
        ny == (index \div w) + o[1]
    IN  nx >= 0 /\ nx < w /\ ny >= 0 /\ ny < h

GetNeighbors(index, w, h) ==
    LET ok == SelectSeq(Offsets, LAMBDA o : InGrid(index, w, h, o))
    IN  [k \in 1 .. Len(ok) |-> NeighborAt(index, w, ok[k])]

----------------------------------------------------------------------------
(* PriorityQueue: a binary min-heap in an array; heap[n] of the code is    *)
(* heap[n + 1] here.                                                       *)

\* a heap that never restores its order after a push
BubbleUpNever(heap, n) == heap

RECURSIVE BubbleUp(_, _)
BubbleUp(heap, n) ==
    IF n <= 0 THEN heap
    ELSE LET parentN == (n - 1) \div 2
             element == heap[n + 1]
             parent  == heap[parentN + 1]
         IN  IF element.priority >= parent.priority THEN heap
             ELSE BubbleUp([heap EXCEPT ![parentN + 1] = element,
                                        ![n + 1] = parent], parentN)

\* a dequeue that leaves the last entry at the root
SinkDownNever(heap, n) == heap

RECURSIVE SinkDown(_, _)
SinkDown(heap, n) ==
    LET length == Len(heap)
        elemPriority == heap[n + 1].priority
        child2N == (n + 1) * 2
        child1N == child2N - 1
        swap1 == IF child1N < length /\ heap[child1N + 1].priority < elemPriority
                 THEN child1N ELSE -1
        swap  == IF child2N < length
                    /\ heap[child2N + 1].priority <
                         (IF swap1 = -1 THEN elemPriority
                                        ELSE heap[child1N + 1].priority)
                 THEN child2N ELSE swap1
    IN  IF swap = -1 THEN heap
        ELSE SinkDown([heap EXCEPT ![n + 1] = heap[swap + 1],
                                   ![swap + 1] = heap[n + 1]], swap)

Enqueue(heap, element, priority) ==
    BubbleUp(Append(heap, [element |-> element, priority |-> priority]),
             Len(heap))

\* the element dequeue returns
DequeueMin(heap) == heap[1].element

\* the heap dequeue leaves
DequeueRest(heap) ==
    LET end == heap[Len(heap)]
        popped == SubSeq(heap, 1, Len(heap) - 1)
    IN  IF Len(popped) > 0
        THEN SinkDown([popped EXCEPT ![1] = end], 0)
        ELSE popped

----------------------------------------------------------------------------
(* The edge cost of findPath, steps 1 to 4.  eu, ev: elevations of u and   *)
(* v; usageCount = roadUsageGrid[v]; cityDistance = cityInfluenceGrid[v]   *)
(* in units of 1/SQRT2_DEN.                                                *)

RegionOf(var, region) == IF var = "main3" THEN region ELSE "china"

\* the terrain cost without Math.max(0.1, moveCost)
TerrainCostUnfloored(region, eu, ev) ==
    IF ev = WATER
    THEN (IF region = "usa" THEN waterCostUsa ELSE waterCost) * Scale
    ELSE LET elevationDiff == ev - eu
             up   == IF region = "usa" THEN uphillFactorUsa ELSE uphillFactor
             down == IF region = "usa" THEN downhillTenthsUsa ELSE downhillTenths
         IN  IF elevationDiff > 0
             THEN Scale * (1 + up * elevationDiff)
             ELSE Scale + (Scale \div 10) * down * elevationDiff

TerrainCost(region, eu, ev) ==
    IF ev = WATER
    THEN (IF region = "usa" THEN waterCostUsa ELSE waterCost) * Scale
    ELSE LET elevationDiff == ev - eu
             up   == IF region = "usa" THEN uphillFactorUsa ELSE uphillFactor
             down == IF region = "usa" THEN downhillTenthsUsa ELSE downhillTenths
             raw  == IF elevationDiff > 0
                     THEN Scale * (1 + up * elevationDiff)
                     ELSE Scale + (Scale \div 10) * down * elevationDiff
         IN  Max(Scale \div 10, raw)

\* a toll per use in place of the discount
UsageToll(moveCost, usageCount) ==
    IF usageCount > 0
    THEN moveCost * (1 + Min(usageCount, maxUses))
    ELSE moveCost

\* the discount without its cap of maxUses
UsageDiscountUncapped(moveCost, usageCount) ==
    IF usageCount > 0
    THEN (moveCost \div usesDivisor) * (usesDivisor - usageCount)
    ELSE moveCost

UsageDiscount(moveCost, usageCount) ==
    IF usageCount > 0
    THEN (moveCost \div usesDivisor) * (usesDivisor - Min(usageCount, maxUses))
    ELSE moveCost

CityThreshold(var) ==
    (IF var = "worker" THEN cityThresholdWorker ELSE cityThresholdMain) * SQRT2_DEN

\* a factor above 1 in place of cityFactor
CityDiscountSurcharge(var, moveCost, cityDistance) ==
    IF cityDistance < CityThreshold(var) THEN (moveCost \div 5) * 7 ELSE moveCost

CityDiscount(var, moveCost, cityDistance) ==
    IF cityDistance < CityThreshold(var)
    THEN (moveCost \div 5) *
         (IF var = "worker" THEN cityKeepFifthsWorker ELSE cityKeepFifthsMain)
    ELSE moveCost

DiagonalCost(moveCost, isDiagonal) ==
    IF isDiagonal THEN (moveCost \div SQRT2_DEN) * SQRT2_NUM ELSE moveCost

MoveCost(var, region, eu, ev, usageCount, cityDistance, isDiagonal) ==
    DiagonalCost(
        CityDiscount(var,
            UsageDiscount(TerrainCost(RegionOf(var, region), eu, ev), usageCount),
            cityDistance),
        isDiagonal)

\* the cost of the edge u -> v on the current grids
EdgeCost(var, region, elev, usage, influence, w, u, v) ==
    MoveCost(var, region, At(elev, u), At(elev, v), At(usage, v),
             At(influence, v),
             (u % w # v % w) /\ (u \div w # v \div w))

----------------------------------------------------------------------------
(* calculateGeometricLength, in units of 1/SQRT2_DEN *)

\* the length of the steps path[lo] -> ... -> path[hi]; the sum is taken by
\* halves to keep the evaluation shallow on long paths
RECURSIVE GeometricSpan(_, _, _, _)
GeometricSpan(path, w, lo, hi) ==
    IF lo >= hi THEN 0
    ELSE IF hi = lo + 1
    THEN LET dx == Abs((path[lo] % w) - (path[hi] % w))
             dy == Abs((path[lo] \div w) - (path[hi] \div w))
         IN  IF dx = 1 /\ dy = 1 THEN SQRT2_NUM ELSE SQRT2_DEN
    ELSE LET mid == (lo + hi) \div 2
         IN  GeometricSpan(path, w, lo, mid) + GeometricSpan(path, w, mid, hi)

CalculateGeometricLength(path, w) == GeometricSpan(path, w, 1, Len(path))

----------------------------------------------------------------------------
(* Settlements.  A city is [name, population, x, y]; x and y are the       *)
(* fractional pixel coordinates lonLatToPixel produced, kept in half       *)
(* pixels, so that Math.round is a real conversion.                        *)

\* Math.round(c / 2) for c in half pixels (halves round up)
MathRound(c) == (c + 1) \div 2

CityX(city) == MathRound(city.x)
CityY(city) == MathRound(city.y)
CityIndex(city, w) == CityY(city) * w + CityX(city)
CityInBounds(city, w, h) ==
    CityX(city) >= 0 /\ CityX(city) < w /\ CityY(city) >= 0 /\ CityY(city) < h

----------------------------------------------------------------------------
(* createCostGrid.  imageData is a sequence of <<r, g, b>> pixels.         *)

IsGrey(px) ==
    Abs(px[1] - px[2]) < waterThreshold /\ Abs(px[2] - px[3]) < waterThreshold

ElevationOf(px) == IF IsGrey(px) THEN px[1] ELSE WATER

SearchRadius(var) ==
    (IF var = "worker" THEN searchRadiusWorker ELSE searchRadiusMain) * SQRT2_DEN

\* state.cities.forEach: seed the BFS with every in-bounds city pixel
RECURSIVE SeedInfluence(_, _, _, _, _)
SeedInfluence(cs, k, w, h, acc) ==
    IF k > Len(cs) THEN acc
    ELSE IF CityInBounds(cs[k], w, h)
         THEN SeedInfluence(cs, k + 1, w, h,
                  [grid  |-> Put(acc.grid, CityIndex(cs[k], w), 0),
                   queue |-> Append(acc.queue, CityIndex(cs[k], w))])
         ELSE SeedInfluence(cs, k + 1, w, h, acc)

\* for (const neighbor of neighbors) of the BFS
RECURSIVE SpreadInfluence(_, _, _, _, _)
SpreadInfluence(acc, nbrs, k, u_dist, radius) ==
    IF k > Len(nbrs) THEN acc
    ELSE LET v == nbrs[k].index
             newDist == u_dist + (IF nbrs[k].isDiagonal THEN SQRT2_NUM
                                                        ELSE SQRT2_DEN)
         IN  IF At(acc.grid, v) = Infinity /\ newDist <= radius
             THEN SpreadInfluence([grid  |-> Put(acc.grid, v, newDist),
                                   queue |-> Append(acc.queue, v)],
                                  nbrs, k + 1, u_dist, radius)
             ELSE SpreadInfluence(acc, nbrs, k + 1, u_dist, radius)

\* one turn of `while (head < queue.length)`; head counts from 0
VisitHead(acc, head, radius, w, h) ==
    IF head >= Len(acc.queue) THEN acc
    ELSE LET u == acc.queue[head + 1]
             u_dist == At(acc.grid, u)
         IN  IF u_dist >= radius THEN acc
             ELSE SpreadInfluence(acc, GetNeighbors(u, w, h), 1, u_dist, radius)

\* the turns for head = lo .. hi, in order (split in halves to keep the
\* evaluation shallow on large grids)
RECURSIVE InfluenceBFS(_, _, _, _, _, _)
InfluenceBFS(acc, lo, hi, radius, w, h) ==
    IF lo > hi THEN acc
    ELSE IF lo = hi THEN VisitHead(acc, lo, radius, w, h)
    ELSE LET mid == (lo + hi) \div 2
             left == InfluenceBFS(acc, lo, mid, radius, w, h)
         IN  IF Len(left.queue) >= Len(acc.queue)
             THEN InfluenceBFS(left, mid + 1, hi, radius, w, h)
             ELSE left

CityInfluence(var, cs, w, h) ==
    \* every pixel enters the queue at most once, besides the seeds
    InfluenceBFS(
        SeedInfluence(cs, 1, w, h,
            [grid |-> [p \in 1 .. w * h |-> Infinity], queue |-> <<>>]),
        0, w * h + Len(cs) - 1, SearchRadius(var), w, h).grid

\* the loop runs over the buffer, the arrays hold width * height entries:
\* a pixel the buffer does not reach keeps the 0 of the fresh Float32Array,
\* a write past the end of the array is dropped
ElevationGridOf(imageData, w, h) ==
    [p \in 1 .. w * h |->
        IF p <= Len(imageData) THEN ElevationOf(imageData[p]) ELSE 0]

ZeroUsage(n) == [p \in 1 .. n |-> 0]

----------------------------------------------------------------------------
(* findPath.  One activation is the record fp:                             *)
(*   status   "idle" | "running" | "path" (returned {path, efficiency})    *)
(*            | "none" (returned null in worker.js, undefined in main.js)  *)
(* After a progress batch findPath gives way to the event loop; only the   *)
(* 203-pixel map of SpecBatch is large enough for a batch before the last  *)
(* one (100 counted pixels in main.js, 2000 in worker.js), and nothing is  *)
(* sent to the worker there.  On every other map an activation runs from   *)
(* its first to its last step without giving way to a handler or a timer.  *)

Idle == [status |-> "idle"]

\* predecessors.fill(255) in worker.js, .fill(-1) in main.js
Unset(var) == IF var = "worker" THEN UNSET ELSE -1

\* Math.floor(width * height * distanceMultiplier); the multiplier is 1 for
\* endpoints at most 1000 pixels apart
MaxIterations(w, h) == w * h

\* findPath takes width, height and the three arrays out of state.map when
\* it is entered (worker.js 340) and reads these from then on.  While the
\* arrays are still those of state.map (detached = FALSE) the model reads
\* them there; once state.map has been given other arrays, own holds the
\* ones the search kept.  atYield: the search awaits the timeout that
\* follows a batch, and resume is the pixel whose neighbors it has yet to
\* relax.  settled lists the pixels in the order `visited[u] = 1` marked
\* them.  loop is the simulationLoop that awaits the search and serial its
\* number among the searches begun.  fp is the activation of findPath that
\* runs or ran last; parked holds the other activations, each of which
\* awaits the timeout of a yield.  usage0 is the usage field as it was when
\* findPath was entered.
NoGrids == [elev |-> <<>>, usage |-> <<>>, influence |-> <<>>, w |-> 0, h |-> 0]

NewSearch(var, startIndex, endIndex, w, h) ==
    [status |-> "running",
     startIndex |-> startIndex,
     endIndex |-> endIndex,
     pq |-> Enqueue(<<>>, startIndex, 0),
     distances |-> Put([p \in 1 .. w * h |-> Infinity], startIndex, 0),
     predecessors |-> [p \in 1 .. w * h |-> Unset(var)],
     visited |-> [p \in 1 .. w * h |-> 0],
     count |-> 0,
     processedCount |-> 0,
     visitedCount |-> 0,
     visitedForUpdate |-> <<>>,
     settled |-> <<>>,
     lastUpdateCount |-> 0,
     path |-> <<>>,
     geometricPathLength |-> 0,
     atYield |-> FALSE,
     resume |-> 0,
     detached |-> FALSE,
     own |-> NoGrids,
     loop |-> 0,
     serial |-> 0,
     parked |-> <<>>,
     usage0 |-> <<>>]

\* the direction of the step itself, not of the way back
DirectionCodeForward(neighbor) == (neighbor.i + 1) * 3 + (neighbor.j + 1)

\* the code of no move at all
DirectionCodeHere(neighbor) == 4

\* worker.js: (dy + 1) * 3 + (dx + 1) with dy = -neighbor.i, dx = -neighbor.j
DirectionCode(neighbor) == ((-neighbor.i) + 1) * 3 + ((-neighbor.j) + 1)

\* what predecessors[v] receives when v is reached from u
PredecessorEntry(var, u, neighbor) ==
    IF var = "worker" THEN DirectionCode(neighbor) ELSE u

\* the pixel a predecessor entry leads back to
StepBack(var, current, entry, w) ==
    IF var = "worker"
    THEN LET dx == (entry % 3) - 1
             dy == (entry \div 3) - 1
         IN  ((current \div w) + dy) * w + ((current % w) + dx)
    ELSE entry

\* One turn of the reconstruction loop on [current, path, done].
\* worker.js stops at startIndex or at an unset entry; main.js stops when
\* current is -1.  Outside the array the entry read is undefined, which is
\* neither 255 nor -1, and so is every entry read after it: the loop goes
\* on for ever, and the walk stays where it is, not done.
ReconstructStep(var, predecessors, startIndex, w, st) ==
    IF st.done THEN st
    ELSE IF var = "worker"
    THEN IF st.current = startIndex
         THEN [st EXCEPT !.path = <<st.current>> \o @, !.done = TRUE]
         ELSE IF ~InArray(predecessors, st.current)
         THEN st
         ELSE IF At(predecessors, st.current) = UNSET
         THEN [st EXCEPT !.path = <<st.current>> \o @, !.done = TRUE]
         ELSE [st EXCEPT !.path = <<st.current>> \o @,
                         !.current = StepBack(var, st.current,
                                              At(predecessors, st.current), w)]
    ELSE IF st.current = -1
         THEN [st EXCEPT !.done = TRUE]
         ELSE IF ~InArray(predecessors, st.current)
         THEN st
         ELSE [st EXCEPT !.path = <<st.current>> \o @,
                         !.current = At(predecessors, st.current)]

\* n turns, in order (split in halves to keep the evaluation shallow)
RECURSIVE ReconstructWalk(_, _, _, _, _, _)
ReconstructWalk(var, predecessors, startIndex, w, st, n) ==
    IF n <= 0 THEN st
    ELSE IF n = 1 THEN ReconstructStep(var, predecessors, startIndex, w, st)
    ELSE LET first == ReconstructWalk(var, predecessors, startIndex, w, st,
                                      n \div 2)
         IN  IF Len(first.path) >= Len(st.path)
             THEN ReconstructWalk(var, predecessors, startIndex, w, first,
                                  n - n \div 2)
             ELSE first

\* Path reconstruction, cut off after fuel turns.
Reconstruct(var, predecessors, current, startIndex, w, path, fuel) ==
    ReconstructWalk(var, predecessors, startIndex, w,
                    [current |-> current, path |-> path, done |-> FALSE],
                    fuel).path

\* whether the reconstruction loop comes to its end
ReconstructionEnds(var, predecessors, current, startIndex, w, fuel) ==
    ReconstructWalk(var, predecessors, startIndex, w,
                    [current |-> current, path |-> <<>>, done |-> FALSE],
                    fuel).done

\* the high-cost test without its comparison of the two distances
HighCostSkipAlways(moveCost, old, newDist) ==
    moveCost >= highCostThreshold * Scale /\ old # Infinity

\* the test that precedes the relaxation: a costly edge into a pixel that
\* has a distance already, whose candidate exceeds that distance by more
\* than a twentieth
HighCostSkip(moveCost, old, newDist) ==
    /\ moveCost >= highCostThreshold * Scale
    /\ old # Infinity
    /\ newDist - old > old \div 20

\* The body of `for (const neighbor of neighbors)`.  ties is the set of
\* pixels for which a candidate equal to the stored distance compares
\* smaller (the stored value is a rounded float32, the candidate a float64).
RECURSIVE Relax(_, _, _, _, _, _, _, _)
Relax(f, nbrs, k, u, ties, var, region, g) ==
    IF k > Len(nbrs) THEN f
    ELSE LET neighbor == nbrs[k]
             v == neighbor.index
             moveCost == MoveCost(var, region, At(g.elev, u), At(g.elev, v),
                                  At(g.usage, v), At(g.influence, v),
                                  neighbor.isDiagonal)
             newDist == At(f.distances, u) + moveCost
             old == At(f.distances, v)
         IN  IF At(f.visited, v) = 1
             THEN Relax(f, nbrs, k + 1, u, ties, var, region, g)
             ELSE IF HighCostSkip(moveCost, old, newDist)
             THEN Relax(f, nbrs, k + 1, u, ties, var, region, g)
             ELSE IF newDist < old \/ (newDist = old /\ v \in ties)
             THEN Relax([f EXCEPT
                            !.distances = Put(@, v, newDist),
                            !.predecessors =
                                Put(@, v, PredecessorEntry(var, u, neighbor)),
                            !.pq = Enqueue(@, v, newDist)],
                        nbrs, k + 1, u, ties, var, region, g)
             ELSE Relax(f, nbrs, k + 1, u, ties, var, region, g)

\* the pixels whose candidate from u equals their stored distance
TieCandidates(f, u, var, region, g, w, h) ==
    LET nbrs == GetNeighbors(u, w, h)
    IN  { nbrs[k].index : k \in
            { j \in 1 .. Len(nbrs) :
                /\ At(f.visited, nbrs[j].index) = 0
                /\ At(f.distances, nbrs[j].index) # Infinity
                /\ At(f.distances, u)
                     + MoveCost(var, region, At(g.elev, u),
                                At(g.elev, nbrs[j].index),
                                At(g.usage, nbrs[j].index),
                                At(g.influence, nbrs[j].index),
                                nbrs[j].isDiagonal)
                   = At(f.distances, nbrs[j].index) } }

\* the batch size in force after processedCount pixels
UpdateFrequency(var, processedCount) ==
    IF var = "worker"
    THEN Min(baseFrequency + processedCount \div growthDivisor, maxFrequency)
    ELSE Min(maxUpdateFrequency,
             baseUpdateFrequency + processedCount \div growthDivisor)

\* whether a batch is due: worker.js looks at the length of the batch,
\* main.js at the pops counted since the last batch
BatchDue(var, f) ==
    IF var = "worker"
    THEN Len(f.visitedForUpdate) >= UpdateFrequency(var, f.processedCount)
    ELSE f.count - f.lastUpdateCount >= UpdateFrequency(var, f.processedCount)

\* postMessage of the batch.  frameDue tells whether the time since the last
\* batch has reached the frame delay, which main.js asks for besides.
\* a batch that is posted and not cleared
SendBatchKeeping(var, f, frameDue) ==
    IF BatchDue(var, f) /\ (var = "worker" \/ frameDue)
    THEN [f EXCEPT !.lastUpdateCount = f.count, !.atYield = TRUE]
    ELSE f

SendBatch(var, f, frameDue) ==
    IF BatchDue(var, f) /\ (var = "worker" \/ frameDue)
    THEN [f EXCEPT !.visitedForUpdate = <<>>, !.lastUpdateCount = f.count,
                   !.atYield = TRUE]
    ELSE f

\* One turn of `while (!pq.isEmpty())`, or the fall out of the loop; a turn
\* that posts a batch stops at the timeout it awaits, and the next step is
\* the rest of that turn.  (worker.js also yields every 10000 processed
\* pixels, and posts its first batch after 2000: both are beyond the maps
\* of this module.)  The status "hung" stands for a reconstruction loop that has no end.  For a
\* start index u outside the arrays distances[u] is undefined, every
\* newDist is NaN and no neighbor is relaxed.
FindPathStep(f, ties, frameDue, var, region, g, w, h) ==
    IF f.atYield
    THEN IF InArray(f.distances, f.resume)
         THEN Relax([f EXCEPT !.atYield = FALSE], GetNeighbors(f.resume, w, h),
                    1, f.resume, ties, var, region, g)
         ELSE [f EXCEPT !.atYield = FALSE]
    ELSE IF Len(f.pq) = 0 THEN [f EXCEPT !.status = "none"]
    ELSE
    LET u == DequeueMin(f.pq)
        f1 == [f EXCEPT !.pq = DequeueRest(f.pq)]
    IN  IF InArray(f1.visited, u) /\ At(f1.visited, u) = 1
        THEN [f1 EXCEPT !.count = @ + 1]
        ELSE
        LET f2 == [f1 EXCEPT !.visited = Put(@, u, 1), !.visitedCount = @ + 1,
                             !.settled = Append(@, u)]
        IN  IF var = "worker" /\ f2.count > MaxIterations(w, h)
            THEN [f2 EXCEPT !.status = "none"]
            ELSE IF u = f2.endIndex
            THEN IF ReconstructionEnds(var, f2.predecessors, f2.endIndex,
                                       f2.startIndex, w, w * h + 1)
                 THEN LET path == Reconstruct(var, f2.predecessors, f2.endIndex,
                                              f2.startIndex, w, <<>>, w * h + 1)
                      IN  [f2 EXCEPT !.status = "path",
                                     !.path = path,
                                     !.geometricPathLength =
                                         CalculateGeometricLength(path, w)]
                 ELSE [f2 EXCEPT !.status = "hung"]
            ELSE LET f3 == SendBatch(var,
                                 [f2 EXCEPT !.visitedForUpdate = Append(@, u),
                                            !.count = @ + 1,
                                            !.processedCount = @ + 1],
                                 frameDue)
                 IN  IF f3.atYield
                     THEN [f3 EXCEPT !.resume = u]
                     ELSE IF InArray(f3.distances, u)
                     THEN Relax(f3, GetNeighbors(u, w, h), 1, u, ties, var,
                                region, g)
                     ELSE f3

----------------------------------------------------------------------------
(* updateCostGridWithRoad *)

\* the Uint16 counter without the overflow guard
RECURSIVE UpdateWrapping(_, _)
UpdateWrapping(usage, path) ==
    IF usage = <<>> \/ path = <<>> THEN usage
    ELSE UpdateWrapping(
             Put(usage, Head(path), (At(usage, Head(path)) + 1) % (USAGE_MAX + 1)),
             Tail(path))

\* a decrement of the Uint16 counter in place of the guarded increment
RECURSIVE UpdateDecrementing(_, _)
UpdateDecrementing(usage, path) ==
    IF usage = <<>> \/ path = <<>> THEN usage
    ELSE UpdateDecrementing(
             Put(usage, Head(path),
                 (At(usage, Head(path)) + USAGE_MAX) % (USAGE_MAX + 1)),
             Tail(path))

\* the body of the for loop for path[k]
UpdatePixel(usage, pixelIndex) ==
    IF InArray(usage, pixelIndex) /\ At(usage, pixelIndex) < USAGE_MAX
    THEN Put(usage, pixelIndex, At(usage, pixelIndex) + 1)
    ELSE usage

\* the turns for path[lo] .. path[hi], in order (split in halves to keep the
\* evaluation shallow on long paths)
RECURSIVE UpdateRange(_, _, _, _)
UpdateRange(usage, path, lo, hi) ==
    IF lo > hi THEN usage
    ELSE IF lo = hi THEN UpdatePixel(usage, path[lo])
    ELSE LET mid == (lo + hi) \div 2
             left == UpdateRange(usage, path, lo, mid)
         IN  IF Len(left) = Len(usage)
             THEN UpdateRange(left, path, mid + 1, hi)
             ELSE left

UpdateCostGridWithRoad(usage, path) ==
    IF usage = <<>> THEN usage ELSE UpdateRange(usage, path, 1, Len(path))

----------------------------------------------------------------------------
(* The worker: message handler, setup and simulationLoop.                  *)
(*                                                                         *)
(* A loop record is [pc, isFirstPath, startCity, endCity].  pc is          *)
(*   "fetchCities"  setup awaits the city and georeference files           *)
(*   "fetchImage"   setup awaits the map image                             *)
(*   "select"       running: at the top of the while body, after the wait  *)
(*   "searching"    running: inside findPath                               *)
(*   "searched"     running: findPath has returned                         *)
(*   "hung"         inside findPath, in a loop that has no end             *)
(*   "minDelay"     awaits the minimum-cycle timeout (main.js)             *)
(*   "noCityWait"   awaits the 1000 ms timeout of the no-cities branch     *)
(*   "awaitNext"    awaits the promise of waitForNextPath                  *)
(* A handler or a timer callback starts only when no loop is running       *)
(* (run to completion); a resumed loop runs before the next handler.       *)

\* postMessage: the event joins those the page has yet to handle; the free
\* environment keeps none
Post(m) == IF page.attached THEN Append(toMain, m) ELSE toMain

\* the search awaits a timeout: the worker is free to handle a message
Suspended == fp.status = "running" /\ fp.atYield

\* the loop that awaits the activation fp
Owns(l) == IF "loop" \in DOMAIN fp THEN fp.loop = l ELSE TRUE

Running(l) ==
    /\ loops[l].pc \in {"select", "searching", "searched"}
    /\ ~(loops[l].pc = "searching" /\ (Suspended \/ ~Owns(l)))
Quiescent == \A l \in 1 .. Len(loops) : ~Running(l)

Grids == [elev |-> elevationGrid, usage |-> roadUsageGrid,
          influence |-> cityInfluenceGrid]

\* the arrays and sizes the activation f reads
HeldOf(f) ==
    IF f.detached THEN f.own
    ELSE [elev |-> elevationGrid, usage |-> roadUsageGrid,
          influence |-> cityInfluenceGrid, w |-> width, h |-> height]

Held == HeldOf(fp)

Detach(f) ==
    IF f.detached THEN f ELSE [f EXCEPT !.detached = TRUE, !.own = HeldOf(f)]

\* state.map is about to get other arrays: the suspended searches keep
\* their own
KeepHeld ==
    IF Suspended
    THEN [Detach(fp) EXCEPT
             !.parked = [k \in 1 .. Len(fp.parked) |-> Detach(fp.parked[k])]]
    ELSE fp

\* a second activation begins while fp awaits a timeout
Park(f) == [f EXCEPT !.parked = <<>>]

\* the activation that goes on when fp has returned
Unpark ==
    IF "parked" \in DOMAIN fp /\ fp.parked # <<>>
    THEN [Head(fp.parked) EXCEPT !.parked = Tail(fp.parked)]
    ELSE Idle

NewLoop(pc) == [pc |-> pc, isFirstPath |-> TRUE, startCity |-> 0, endCity |-> 0]

\* pickEndCity without its filter
EndCandidatesAny(startCity) == 1 .. Len(cities)

\* pickEndCity: the cities whose name differs from the start city's
EndCandidates(startCity) ==
    { c \in 1 .. Len(cities) : cities[c].name # cities[startCity].name }

\* a loop that goes on without waiting
WaitSkipped(l) ==
    /\ nextPathResolver' = nextPathResolver
    /\ loops' = [loops EXCEPT ![l].pc = "select"]

\* the top of the while body for a loop that has had its first path:
\* await waitForNextPath()
WaitForNextPath(l) ==
    /\ nextPathResolver' = l
    /\ loops' = [loops EXCEPT ![l].pc = "awaitNext"]

\* self.onmessage, type 'start'
StartMsg ==
    /\ Quiescent
    /\ toWorker # <<>> /\ Head(toWorker).type = "start"
    /\ toWorker' = Tail(toWorker)
    /\ roadUsageGrid' = IF variant # "worker" /\ roadUsageGrid # <<>>
                        THEN ZeroUsage(Len(roadUsageGrid))
                        ELSE roadUsageGrid
    /\ loops' = Append(loops,
                       IF variant = "main3" /\ cities # <<>>
                       THEN NewLoop("select")
                       ELSE NewLoop("fetchCities"))
    /\ UNCHANGED <<variant, width, height, elevationGrid, cityInfluenceGrid,
                   cities, currentRegion, data, fp, nextPathResolver, toMain,
                   page, hist>>

\* self.onmessage, type 'readyForNextPath'
ReadyMsg ==
    /\ Quiescent
    /\ toWorker # <<>> /\ Head(toWorker).type = "readyForNextPath"
    /\ toWorker' = Tail(toWorker)
    /\ IF nextPathResolver # 0
       THEN /\ loops' = [loops EXCEPT ![nextPathResolver].pc = "select"]
            /\ nextPathResolver' = 0
       ELSE UNCHANGED <<loops, nextPathResolver>>
    /\ hist' = [hist EXCEPT !.readySinceEnd = TRUE]
    /\ UNCHANGED <<variant, width, height, elevationGrid, roadUsageGrid,
                   cityInfluenceGrid, cities, currentRegion, data, fp, toMain,
                   page>>

\* setup, up to the post of citiesData
SetupCities(l) ==
    /\ Quiescent
    /\ loops[l].pc = "fetchCities"
    /\ cities' = data.cities
    /\ toMain' = Post([type |-> "citiesData", payload |-> data.cities])
    /\ loops' = [loops EXCEPT ![l].pc = "fetchImage"]
    /\ UNCHANGED <<variant, width, height, elevationGrid, roadUsageGrid,
                   cityInfluenceGrid, currentRegion, data, fp,
                   nextPathResolver, toWorker, page, hist>>

\* setup, from the map image to createCostGrid; then simulationLoop starts
SetupGrid(l) ==
    /\ Quiescent
    /\ loops[l].pc = "fetchImage"
    /\ width' = data.width
    /\ height' = data.height
    /\ elevationGrid' = ElevationGridOf(data.imageData, data.width, data.height)
    /\ roadUsageGrid' = ZeroUsage(data.width * data.height)
    /\ cityInfluenceGrid' = CityInfluence(variant, cities, data.width, data.height)
    /\ fp' = KeepHeld
    /\ loops' = [loops EXCEPT ![l].pc = "select"]
    /\ UNCHANGED <<variant, cities, currentRegion, data, nextPathResolver,
                   toWorker, toMain, page, hist>>

\* self.onmessage, type 'loadRegion': main3 takes the region name and the
\* file paths, drops the cities and the arrays of state.map and begins
\* loadRegionData, which no simulationLoop follows; worker.js and main2 have
\* no branch for the message
LoadRegionMsg ==
    /\ Quiescent
    /\ toWorker # <<>> /\ Head(toWorker).type = "loadRegion"
    /\ toWorker' = Tail(toWorker)
    /\ IF variant = "main3"
       THEN /\ currentRegion' = Head(toWorker).region
            /\ data' = Head(toWorker).files
            /\ cities' = <<>>
            /\ elevationGrid' = <<>>
            /\ roadUsageGrid' = <<>>
            /\ cityInfluenceGrid' = <<>>
            /\ fp' = KeepHeld
            /\ loops' = Append(loops, NewLoop("loadCities"))
       ELSE UNCHANGED <<currentRegion, data, cities, elevationGrid,
                        roadUsageGrid, cityInfluenceGrid, fp, loops>>
    /\ UNCHANGED <<variant, width, height, nextPathResolver, toMain, page, hist>>

\* loadRegionData begun by a loadRegion message, up to the post of citiesData
LoadCities(l) ==
    /\ Quiescent
    /\ loops[l].pc = "loadCities"
    /\ cities' = data.cities
    /\ toMain' = Post([type |-> "citiesData", payload |-> data.cities])
    /\ loops' = [loops EXCEPT ![l].pc = "loadImage"]
    /\ UNCHANGED <<variant, width, height, elevationGrid, roadUsageGrid,
                   cityInfluenceGrid, currentRegion, data, fp,
                   nextPathResolver, toWorker, page, hist>>

\* loadRegionData begun by a loadRegion message, from the map image to
\* createCostGrid
LoadGrid(l) ==
    /\ Quiescent
    /\ loops[l].pc = "loadImage"
    /\ width' = data.width
    /\ height' = data.height
    /\ elevationGrid' = ElevationGridOf(data.imageData, data.width, data.height)
    /\ roadUsageGrid' = ZeroUsage(data.width * data.height)
    /\ cityInfluenceGrid' = CityInfluence(variant, cities, data.width, data.height)
    /\ fp' = KeepHeld
    /\ loops' = [loops EXCEPT ![l].pc = "loaded"]
    /\ UNCHANGED <<variant, cities, currentRegion, data, nextPathResolver,
                   toWorker, toMain, page, hist>>

\* setup: a fetch is rejected or answers not ok (or a later step of the try
\* block throws); the catch block posts a log line and setup returns, so the
\* promise is fulfilled and .then starts simulationLoop on whatever was
\* loaded before
SetupFails(l) ==
    /\ Quiescent
    /\ loops[l].pc \in {"fetchCities", "fetchImage"}
    /\ toMain' = Post([type |-> "log", payload |-> "Error during setup"])
    /\ loops' = [loops EXCEPT ![l].pc = "select"]
    /\ hist' = [hist EXCEPT !.loadFailed = TRUE]
    /\ UNCHANGED <<variant, width, height, elevationGrid, roadUsageGrid,
                   cityInfluenceGrid, cities, currentRegion, data, fp,
                   nextPathResolver, toWorker, page>>

\* findPath entered before any map is loaded (main3 started again while its
\* first load is under way): on the 0x0 map the queue empties after the start
\* index, or the end index is met at once and reading the usage of the path
\* throws inside the try block; either way no pathFound follows.
NoMap == [status |-> "running", pq |-> <<>>, atYield |-> FALSE,
          detached |-> FALSE]

\* simulationLoop: pick the two cities, post findingPath, enter findPath.
\* weightedRandom may return any listed city (all weights are positive).
\* A loop that comes here while the search of another loop awaits a timeout
\* begins an activation of its own, and the suspended one is parked.
Iterate(l) ==
    /\ loops[l].pc = "select"
    /\ fp.status # "running" \/ (Suspended /\ elevationGrid # <<>>)
    /\ hist.findingCount < MaxSearches
    /\ IF cities = <<>>
       THEN \* the no-cities branch of main3, which posts a log line and
            \* waits; pickStartCity of worker.js and of main2 throws on an
            \* empty list, the promise of simulationLoop is rejected with
            \* nobody to handle it, and the loop is gone
            /\ loops' = [loops EXCEPT ![l].pc =
                            IF variant = "main3" THEN "noCityWait" ELSE "crashed",
                                      ![l].isFirstPath = FALSE]
            /\ toMain' = IF variant = "main3"
                         THEN Post([type |-> "log",
                                    payload |-> "No cities available, waiting..."])
                         ELSE toMain
            /\ UNCHANGED <<fp, hist>>
       ELSE \E startCity \in 1 .. Len(cities) :
            IF EndCandidates(startCity) = {}
            THEN /\ loops' = [loops EXCEPT ![l].pc = "noCityWait",
                                           ![l].isFirstPath = FALSE,
                                           ![l].startCity = startCity,
                                           ![l].endCity = 0]
                 /\ UNCHANGED <<fp, toMain, hist>>
            ELSE \E endCity \in EndCandidates(startCity) :
                 /\ loops' = [loops EXCEPT ![l].pc = "searching",
                                           ![l].isFirstPath = FALSE,
                                           ![l].startCity = startCity,
                                           ![l].endCity = endCity]
                 /\ toMain' = Post([type |-> "findingPath",
                                    payload |-> <<cities[startCity].name,
                                                  cities[endCity].name>>])
                 /\ fp' = IF elevationGrid = <<>>
                           THEN NoMap
                           ELSE [NewSearch(variant,
                                           CityIndex(cities[startCity], width),
                                           CityIndex(cities[endCity], width),
                                           width, height)
                                 EXCEPT !.loop = l,
                                        !.serial = hist.findingCount + 1,
                                        !.usage0 = roadUsageGrid,
                                        !.parked = IF Suspended
                                                   THEN <<Park(fp)>> \o fp.parked
                                                   ELSE <<>>]
                 /\ hist' = [hist EXCEPT !.findingCount = @ + 1,
                                         !.lastResult = "searching",
                                         !.readySinceEnd = FALSE]
    /\ UNCHANGED <<variant, width, height, elevationGrid, roadUsageGrid,
                   cityInfluenceGrid, cities, currentRegion, data,
                   nextPathResolver, toWorker, page>>

\* the clock of main.js may or may not have reached the frame delay when a
\* batch is due.  The first batch of a search is sent as soon as it is due:
\* state.lastFrameTime is 0, or the time of a batch of an earlier search,
\* and the clock is well past it.
FrameChoicesOf(f) ==
    IF variant # "worker" /\ ~f.atYield /\ f.pq # <<>>
       /\ f.lastUpdateCount > 0
       /\ f.count + 1 - f.lastUpdateCount
             >= UpdateFrequency(variant, f.processedCount + 1)
    THEN BOOLEAN ELSE {TRUE}

FrameChoices == FrameChoicesOf(fp)

\* the pixel whose neighbors the coming step of f relaxes
TurnPixelOf(f) == IF f.atYield THEN f.resume ELSE DequeueMin(f.pq)

TurnPixel == TurnPixelOf(fp)

\* the activations whose timeout may fire next: fp itself (0), or, while fp
\* awaits a timeout, one of the parked
Resumable == IF Suspended THEN 0 .. Len(fp.parked) ELSE {0}

\* the activation that takes the coming step, the others parked
Turn(k) ==
    IF k = 0 THEN fp
    ELSE [fp.parked[k] EXCEPT
             !.parked = <<Park(fp)>> \o SubSeq(fp.parked, 1, k - 1)
                          \o SubSeq(fp.parked, k + 1, Len(fp.parked))]

\* findPath: one turn of its while loop.  Of the log lines only those that
\* tell an outcome are kept (a failed load, no settlements, no path); the
\* ones that narrate progress are left out.
SearchStep ==
    /\ fp.status = "running"
    /\ \E k \in Resumable, l \in 1 .. Len(loops) :
        LET f0 == Turn(k)
            g == HeldOf(f0)
        IN
        /\ loops[l].pc = "searching"
        /\ "loop" \in DOMAIN f0 => f0.loop = l
        /\ \E ties \in (IF (~f0.atYield /\ f0.pq = <<>>)
                           \/ ~InArray(f0.distances, TurnPixelOf(f0))
                        THEN {{}}
                        ELSE SUBSET TieCandidates(f0, TurnPixelOf(f0), variant,
                                 currentRegion, g, g.w, g.h)) :
           \E frameDue \in FrameChoicesOf(f0) :
            LET f == FindPathStep(f0, ties, frameDue, variant, currentRegion,
                                  g, g.w, g.h)
            IN  /\ fp' = f
                /\ loops' = IF f.status = "running" THEN loops
                            ELSE IF f.status = "hung"
                            THEN [loops EXCEPT ![l].pc = "hung"]
                            ELSE [loops EXCEPT ![l].pc = "searched"]
                /\ toMain' = IF f.status = "path" /\ Len(f.visitedForUpdate) > 0
                             THEN Post([type |-> "pathfindingUpdate",
                                        payload |-> f.visitedForUpdate])
                             ELSE IF f.status = "none" /\ variant = "worker"
                             THEN Post([type |-> "log",
                                        payload |-> "No path found!"])
                             ELSE IF f.status = "running"
                                     /\ f.lastUpdateCount # f0.lastUpdateCount
                             THEN Post([type |-> "pathfindingUpdate",
                                        payload |-> Append(f0.visitedForUpdate,
                                                           DequeueMin(f0.pq))])
                             ELSE toMain
    /\ UNCHANGED <<variant, width, height, elevationGrid, roadUsageGrid,
                   cityInfluenceGrid, cities, currentRegion, data,
                   nextPathResolver, toWorker, page, hist>>

\* pathWithUsage of main.js: the usage of each path pixel before the update
PathWithUsage(path, usage) ==
    [k \in 1 .. Len(path) |->
        [index |-> path[k],
         usage |-> IF InArray(usage, path[k]) THEN At(usage, path[k]) ELSE 0]]

\* a progress batch in the place of the pathFound message
PathFoundAsUpdate(l) == [type |-> "pathfindingUpdate", payload |-> fp.path]

\* the payload's efficiency is geometricPathLength over the straight-line
\* distance of the two settlements; the length is what the model keeps
PathFound(l) ==
    IF variant = "worker"
    THEN [type |-> "pathFound", path |-> fp.path,
          startCity |-> loops[l].startCity, endCity |-> loops[l].endCity,
          geometricPathLength |-> fp.geometricPathLength]
    ELSE [type |-> "pathFound", path |-> fp.path,
          pathWithUsage |-> PathWithUsage(fp.path, roadUsageGrid),
          startCity |-> loops[l].startCity, endCity |-> loops[l].endCity,
          geometricPathLength |-> fp.geometricPathLength]

\* main.js reads state.map.roadUsageGrid for pathWithUsage: when a
\* loadRegion message has set it to null during the search, the read throws;
\* main3 catches that and posts a log line, main2 has no handler for it and
\* its loop is gone
UsageReadThrows ==
    /\ fp.status = "path" /\ fp.path # <<>>
    /\ variant # "worker" /\ roadUsageGrid = <<>>

\* simulationLoop after findPath returned: post pathFound and reinforce the
\* path, then wait for the page (worker.js) or first for the rest of the
\* minimum cycle time (main.js; whether the cycle was already long enough is
\* for the clock to say).  analyzePathForSegments of worker.js reports only
\* segments of more than 20 pixels, which the grids of the model cannot hold.
LoopFinish(l) ==
    /\ loops[l].pc = "searched"
    /\ IF UsageReadThrows
       THEN /\ toMain' = IF variant = "main3"
                         THEN Post([type |-> "log",
                                    payload |-> "Error finding path"])
                         ELSE toMain
            /\ UNCHANGED roadUsageGrid
            /\ hist' = [hist EXCEPT !.lastResult = "error",
                                    !.readySinceEnd = FALSE]
       ELSE IF fp.status = "path"
       THEN /\ toMain' = Post(PathFound(l))
            /\ roadUsageGrid' = UpdateCostGridWithRoad(roadUsageGrid, fp.path)
            /\ hist' = [hist EXCEPT !.lastResult = "path",
                                    !.readySinceEnd = FALSE,
                                    !.lastFound =
                                        [s |-> fp.startIndex,
                                         e |-> fp.endIndex,
                                         len |-> fp.geometricPathLength,
                                         fresh |-> \A q \in 1 .. Len(roadUsageGrid) :
                                                      roadUsageGrid[q] = 0]]
       ELSE /\ toMain' = IF variant = "main3"
                         THEN Post([type |-> "log",
                                    payload |-> "No path found between cities"])
                         ELSE toMain
            /\ UNCHANGED roadUsageGrid
            /\ hist' = [hist EXCEPT !.lastResult = "none",
                                    !.readySinceEnd = FALSE]
    /\ fp' = Unpark
    /\ IF variant = "worker"
       THEN WaitForNextPath(l)
       ELSE IF variant = "main2" /\ UsageReadThrows
       THEN /\ loops' = [loops EXCEPT ![l].pc = "crashed"]
            /\ UNCHANGED nextPathResolver
       ELSE \E cycleWasLong \in BOOLEAN :
                IF cycleWasLong
                THEN WaitForNextPath(l)
                ELSE /\ loops' = [loops EXCEPT ![l].pc = "minDelay"]
                     /\ UNCHANGED nextPathResolver
    /\ UNCHANGED <<variant, width, height, elevationGrid, cityInfluenceGrid,
                   cities, currentRegion, data, toWorker, page>>

\* a timeout the loop awaits has elapsed: back to the top of the while body
\* (a 1000 ms wait is already longer than the minimum cycle time)
TimerFire(l) ==
    /\ Quiescent
    /\ loops[l].pc \in {"minDelay", "noCityWait"}
    /\ WaitForNextPath(l)
    /\ UNCHANGED <<variant, width, height, elevationGrid, roadUsageGrid,
                   cityInfluenceGrid, cities, currentRegion, data, fp,
                   toWorker, toMain, page, hist>>

----------------------------------------------------------------------------
(* The page script (src/main.js 1..343, src/unnamed/part_000).  Drawing is *)
(* left out; what remains is the start button, the event handler and the   *)
(* flash closures of drawLightning (one counter per running animation).    *)

maxFlashes == 5

RemoveAt(seq, k) == SubSeq(seq, 1, k - 1) \o SubSeq(seq, k + 1, Len(seq))

\* startButton click listener
ClickStart ==
    /\ ~page.startDisabled
    /\ page' = [page EXCEPT !.startDisabled = TRUE]
    /\ toWorker' = Append(toWorker, [type |-> "start"])
    /\ hist' = [hist EXCEPT !.startsSent = @ + 1]
    /\ UNCHANGED <<variant, width, height, elevationGrid, roadUsageGrid,
                   cityInfluenceGrid, cities, currentRegion, data, fp, loops,
                   nextPathResolver, toMain>>

\* worker.onmessage of the page; pathFound calls drawLightning, whose first
\* flash() runs at once
PageRecv ==
    /\ toMain # <<>>
    /\ toMain' = Tail(toMain)
    /\ LET m == Head(toMain)
       IN  page' =
             IF m.type = "citiesData" THEN [page EXCEPT !.cities = m.payload]
             ELSE IF m.type = "findingPath"
                  THEN [page EXCEPT !.isPathfindingActive = TRUE]
             ELSE IF m.type = "pathFound"
                  THEN [page EXCEPT !.isPathfindingActive = FALSE,
                                    !.allPaths = @ + 1,
                                    !.lightnings = Append(@, 1)]
             ELSE page
    /\ UNCHANGED <<variant, width, height, elevationGrid, roadUsageGrid,
                   cityInfluenceGrid, cities, currentRegion, data, fp, loops,
                   nextPathResolver, toWorker, hist>>

\* flash() that posts one step early
FlashEarly(k) ==
    /\ k \in 1 .. Len(page.lightnings)
    /\ IF page.lightnings[k] >= maxFlashes - 1
       THEN /\ page' = [page EXCEPT !.lightnings = RemoveAt(@, k)]
            /\ toWorker' = Append(toWorker, [type |-> "readyForNextPath"])
            /\ hist' = [hist EXCEPT !.readySent = @ + 1]
       ELSE /\ page' = [page EXCEPT !.lightnings[k] = @ + 1]
            /\ UNCHANGED <<toWorker, hist>>
    /\ UNCHANGED <<variant, width, height, elevationGrid, roadUsageGrid,
                   cityInfluenceGrid, cities, currentRegion, data, fp, loops,
                   nextPathResolver, toMain>>

\* flash() called by its 80 ms timeout
Flash(k) ==
    /\ k \in 1 .. Len(page.lightnings)
    /\ IF page.lightnings[k] >= maxFlashes
       THEN /\ page' = [page EXCEPT !.lightnings = RemoveAt(@, k)]
            /\ toWorker' = Append(toWorker, [type |-> "readyForNextPath"])
            /\ hist' = [hist EXCEPT !.readySent = @ + 1]
       ELSE /\ page' = [page EXCEPT !.lightnings[k] = @ + 1]
            /\ UNCHANGED <<toWorker, hist>>
    /\ UNCHANGED <<variant, width, height, elevationGrid, roadUsageGrid,
                   cityInfluenceGrid, cities, currentRegion, data, fp, loops,
                   nextPathResolver, toMain>>

----------------------------------------------------------------------------
(* A free environment in the page's place: it may post start and           *)
(* readyForNextPath at any moment.  A message posted while the worker runs *)
(* is seen only once it has stopped, so the posts are taken at those       *)
(* moments.                                                                *)

EnvStart ==
    /\ Quiescent
    /\ hist.startsSent < MaxStarts
    /\ toWorker' = Append(toWorker, [type |-> "start"])
    /\ hist' = [hist EXCEPT !.startsSent = @ + 1]
    /\ UNCHANGED <<variant, width, height, elevationGrid, roadUsageGrid,
                   cityInfluenceGrid, cities, currentRegion, data, fp, loops,
                   nextPathResolver, toMain, page>>

EnvReady ==
    /\ Quiescent
    /\ hist.startsSent > 0
    /\ hist.readySent < MaxReady
    /\ toWorker' = Append(toWorker, [type |-> "readyForNextPath"])
    /\ hist' = [hist EXCEPT !.readySent = @ + 1]
    /\ UNCHANGED <<variant, width, height, elevationGrid, roadUsageGrid,
                   cityInfluenceGrid, cities, currentRegion, data, fp, loops,
                   nextPathResolver, toMain, page>>

\* a loadRegion message that names files of the region
EnvLoadRegion ==
    /\ Quiescent
    /\ hist.startsSent > 0
    /\ hist.loadsSent < MaxLoads
    /\ \E region \in {"china", "usa"} :
          toWorker' = Append(toWorker, [type |-> "loadRegion", region |-> region,
                                        files |-> data])
    /\ hist' = [hist EXCEPT !.loadsSent = @ + 1]
    /\ UNCHANGED <<variant, width, height, elevationGrid, roadUsageGrid,
                   cityInfluenceGrid, cities, currentRegion, data, fp, loops,
                   nextPathResolver, toMain, page>>

----------------------------------------------------------------------------
(* Data files: rasters and city lists *)

City(name, x, y) == [name |-> name, population |-> 1, x |-> x, y |-> y]

\* colours of the raster: greys are land at elevation r, the rest is water
G0 == <<0, 0, 0>>
G2 == <<2, 2, 2>>
G4 == <<4, 4, 4>>
Tint == <<30, 25, 28>>
Sea == <<0, 0, 255>>
Off == <<30, 40, 40>>
Drift == <<0, 9, 18>>

\* 2x2, flat
Flat2 == [width |-> 2, height |-> 2, imageData |-> <<G0, G0, G0, G0>>,
          cities |-> <<City("A", 0, 0), City("B", 2, 2)>>]

\* 3x3, flat, settlements in opposite corners (coordinates 0.5 round up)
Flat3 == [width |-> 3, height |-> 3,
          imageData |-> <<G0, G0, G0, G0, G0, G0, G0, G0, G0>>,
          cities |-> <<City("A", -1, 0), City("B", 3, 4)>>]

\* 3x2, the upper row water, both settlements on it
Strait == [width |-> 3, height |-> 2,
           imageData |-> <<Sea, Off, Sea, G0, G0, G0>>,
           cities |-> <<City("A", 2, 0), City("B", 4, 0)>>]

\* 3x3, a pit in the middle, a rise in the last corner
Crater == [width |-> 3, height |-> 3,
           imageData |-> <<G2, G2, G2, G2, G0, G2, G2, G2, G4>>,
           cities |-> <<City("A", 2, 2), City("B", 4, 4)>>]

\* 3x3, a steep rise between three settlements at (-0.5, 0), (1.5, 0) and
\* (1, 0.5)
Cliff == [width |-> 3, height |-> 3,
          imageData |-> <<G0, Tint, G0, G0, Tint, G2, G0, G0, G0>>,
          cities |-> <<City("A", -1, 0), City("B", 3, 0), City("C", 2, 1)>>]

\* 4x4, flat, a full row of water between (0,0) and (3,3)
WaterRow == [width |-> 4, height |-> 4,
             imageData |-> <<G0, G0, G0, G0, Sea, Sea, Sea, Sea,
                             G0, G0, G0, G0, G0, G0, G0, G0>>,
             cities |-> <<City("A", 0, 0), City("B", 6, 6)>>]

\* 13x1, flat, settlements at both ends: the middle pixel is more than 5
\* steps from either
Causeway == [width |-> 13, height |-> 1,
             imageData |-> <<G0, G0, G0, G0, G0, G0, G0, G0, G0, G0, G0, G0, G0>>,
             cities |-> <<City("A", 0, 0), City("B", 24, 0)>>]

\* 305x1, flat, settlements at both ends: long enough for three progress
\* batches of main.js before the end is reached
Long == [width |-> 305, height |-> 1,
         imageData |-> [p \in 1 .. 305 |-> G0],
         cities |-> <<City("A", 0, 0), City("B", 608, 0)>>]

\* 2x2, flat, with settlements off the map: B lies below it and C to the
\* right of its last row, and both get the pixel index 4, one past the
\* arrays; D lies to the left of its first row and gets the index -1
Beyond == [width |-> 2, height |-> 2, imageData |-> <<G0, G0, G0, G0>>,
           cities |-> <<City("A", 0, 0), City("F", 2, 2), City("B", 0, 4),
                        City("C", 4, 2), City("D", -2, 0)>>]

\* 2x2, flat, with a settlement one pixel to the right of the first row:
\* E at (2, 0) gets the pixel index 0*2+2 = 2, that of the pixel (0, 1)
Wrapped == [width |-> 2, height |-> 2, imageData |-> <<G0, G0, G0, G0>>,
            cities |-> <<City("A", 0, 0), City("E", 4, 0)>>]

\* 2x2, flat, two of the three settlements bear the same name
Twins == [width |-> 2, height |-> 2, imageData |-> <<G0, G0, G0, G0>>,
          cities |-> <<City("A", 0, 0), City("A", 2, 0), City("B", 2, 2)>>]

\* 103x1, flat, settlements at both ends: main.js posts one progress batch,
\* and awaits a timeout, three pixels before the end is reached
Mid == [width |-> 103, height |-> 1,
        imageData |-> [p \in 1 .. 103 |-> G0],
        cities |-> <<City("A", 0, 0), City("B", 204, 0)>>]

\* 3x2, a ledge along the lower row, settlements at (2,0) and (0,1)
Ridge == [width |-> 3, height |-> 2,
          imageData |-> <<G0, G0, G2, G4, G4, G0>>,
          cities |-> <<City("A", 4, 0), City("B", 0, 2)>>]

\* 4x4, flat and dry, settlements at (0,0) and (3,3)
Flat4 == [width |-> 4, height |-> 4,
          imageData |-> [p \in 1 .. 16 |-> G2],
          cities |-> <<City("A", 0, 0), City("B", 6, 6)>>]

\* 1560x2: a dry flat row over a row of water, A at (510,0), B at (1032,0)
\* and C at (1031,1).  At columns 1030 and 1031 the lower row is land, and
\* both rows rise by 4 at column 1031: the way from A to B climbs either in
\* the upper row or in the lower one, through C.  worker.js posts its first
\* batch, and awaits a timeout, before the search from A has met either
\* climb.
Fork == [width |-> 1560, height |-> 2,
         imageData |-> [p \in 1 .. 3120 |->
                          IF p = 1032 \/ p = 2592 THEN G4
                          ELSE IF p <= 1560 \/ p = 2591 THEN G0
                          ELSE Sea],
         cities |-> <<City("A", 1020, 0), City("B", 2064, 0),
                      City("C", 2062, 2)>>]

\* 2x2 with a single settlement
Lonely == [width |-> 2, height |-> 2, imageData |-> <<G0, G2, G2, G0>>,
           cities |-> <<City("A", 0, 0)>>]

\* 2x2 whose settlement file lists no feature
Deserted == [width |-> 2, height |-> 2, imageData |-> <<G0, G0, G0, G0>>,
             cities |-> <<>>]

\* usage fields a long run leaves behind: fresh, worn around the discount
\* cap, and at the counter's limit
UsageFields(n) ==
    { ZeroUsage(n),
      [p \in 1 .. n |-> (p * 5) % 14],
      [p \in 1 .. n |-> IF p % 2 = 0 THEN USAGE_MAX ELSE USAGE_MAX - 1] }

Variants == {"worker", "main2", "main3"}

\* hist: start and ready messages posted so far, findingPath events so far,
\* how the latest search ended ("-", "searching", "path", "none"), and whether
\* a readyForNextPath was handled since the latest search began or ended,
\* and whether a setup has ended in its catch block, and the latest path
\* that was reported: its end pixels, its geometric length (the numerator of
\* the efficiency in the log line) and whether the usage field was all
\* zero when it was searched
NoneFound == [s |-> -1, e |-> -1, len |-> 0, fresh |-> FALSE]

HistInit ==
    [startsSent |-> 0, readySent |-> 0, findingCount |-> 0,
     lastResult |-> "-", readySinceEnd |-> FALSE, loadFailed |-> FALSE,
     loadsSent |-> 0, lastFound |-> NoneFound]

PageInit == [attached |-> TRUE, startDisabled |-> FALSE, cities |-> <<>>,
             isPathfindingActive |-> FALSE, allPaths |-> 0, lightnings |-> <<>>]

----------------------------------------------------------------------------
(* SpecSearch: one pass of the loop body from a loaded map.  The state is  *)
(* the one a loop is in when it is about to pick its cities.               *)

SearchWorlds == {Flat2, Flat3, Strait, Crater, Cliff, WaterRow, Causeway}

InitSearch ==
    /\ variant \in Variants
    /\ data \in SearchWorlds
    /\ currentRegion \in (IF variant = "main3" THEN {"china", "usa"} ELSE {"china"})
    /\ width = data.width
    /\ height = data.height
    /\ cities = data.cities
    /\ elevationGrid = ElevationGridOf(data.imageData, data.width, data.height)
    /\ roadUsageGrid \in UsageFields(Len(data.imageData))
    /\ cityInfluenceGrid = CityInfluence(variant, data.cities, data.width, data.height)
    /\ fp = Idle
    /\ loops \in {<<NewLoop("select")>>,
                  <<[NewLoop("select") EXCEPT !.isFirstPath = FALSE]>>}
    /\ nextPathResolver = 0
    /\ toWorker = <<>>
    /\ toMain = <<>>
    /\ page = [PageInit EXCEPT !.startDisabled = TRUE]
    /\ hist = [HistInit EXCEPT !.startsSent = 1]

NextSearch ==
    \/ \E l \in 1 .. Len(loops) : Iterate(l)
    \/ SearchStep
    \/ \E l \in 1 .. Len(loops) : LoopFinish(l)

SpecSearch == InitSearch /\ [][NextSearch]_vars

----------------------------------------------------------------------------
(* SpecOutside: one pass of the loop body on a map whose settlement file   *)
(* also lists places off the map.                                          *)

OutsideWorlds == {Beyond, Strait, Wrapped}

InitOutside ==
    /\ variant \in Variants
    /\ data \in OutsideWorlds
    /\ currentRegion = "china"
    /\ width = data.width
    /\ height = data.height
    /\ cities = data.cities
    /\ elevationGrid = ElevationGridOf(data.imageData, data.width, data.height)
    /\ roadUsageGrid = ZeroUsage(data.width * data.height)
    /\ cityInfluenceGrid = CityInfluence(variant, data.cities, data.width, data.height)
    /\ fp = Idle
    /\ loops = <<NewLoop("select")>>
    /\ nextPathResolver = 0
    /\ toWorker = <<>>
    /\ toMain = <<>>
    /\ page = [PageInit EXCEPT !.startDisabled = TRUE]
    /\ hist = [HistInit EXCEPT !.startsSent = 1]

SpecOutside == InitOutside /\ [][NextSearch]_vars

----------------------------------------------------------------------------
(* SpecScenario: one pass of the loop body on the flat, dry 4x4 map with a *)
(* fresh usage field.                                                      *)

InitScenario ==
    /\ variant \in Variants
    /\ data = Flat4
    /\ currentRegion \in (IF variant = "main3" THEN {"china", "usa"} ELSE {"china"})
    /\ width = data.width
    /\ height = data.height
    /\ cities = data.cities
    /\ elevationGrid = ElevationGridOf(data.imageData, data.width, data.height)
    /\ roadUsageGrid = ZeroUsage(data.width * data.height)
    /\ cityInfluenceGrid = CityInfluence(variant, data.cities, data.width, data.height)
    /\ fp = Idle
    /\ loops = <<NewLoop("select")>>
    /\ nextPathResolver = 0
    /\ toWorker = <<>>
    /\ toMain = <<>>
    /\ page = [PageInit EXCEPT !.startDisabled = TRUE]
    /\ hist = [HistInit EXCEPT !.startsSent = 1]

SpecScenario == InitScenario /\ [][NextSearch]_vars

----------------------------------------------------------------------------
(* SpecRepeat: the loop on a loaded map, the page answering each path with *)
(* readyForNextPath, so that a pair of settlements is searched again.      *)

RepeatWorlds == {Ridge, Flat3}

\* usage fields at the start: fresh, or worn at pixel 3 alone (what eleven
\* one-pixel paths between settlements that share the pixel leave behind)
RepeatUsage(n) == {ZeroUsage(n), [p \in 1 .. n |-> IF p = 4 THEN 11 ELSE 0]}

InitRepeat ==
    /\ variant \in Variants
    /\ data \in RepeatWorlds
    /\ currentRegion = "china"
    /\ width = data.width
    /\ height = data.height
    /\ cities = data.cities
    /\ elevationGrid = ElevationGridOf(data.imageData, data.width, data.height)
    /\ roadUsageGrid \in RepeatUsage(Len(data.imageData))
    /\ cityInfluenceGrid = CityInfluence(variant, data.cities, data.width, data.height)
    /\ fp = Idle
    /\ loops = <<NewLoop("select")>>
    /\ nextPathResolver = 0
    /\ toWorker = <<>>
    /\ toMain = <<>>
    /\ page = [PageInit EXCEPT !.attached = FALSE, !.startDisabled = TRUE]
    /\ hist = [HistInit EXCEPT !.startsSent = 1]

NextRepeat ==
    \/ EnvReady
    \/ ReadyMsg
    \/ \E l \in 1 .. Len(loops) : Iterate(l)
    \/ SearchStep
    \/ \E l \in 1 .. Len(loops) : LoopFinish(l)
    \/ \E l \in 1 .. Len(loops) : TimerFire(l)

SpecRepeat == InitRepeat /\ [][NextRepeat]_vars

----------------------------------------------------------------------------
(* SpecCost: the edge cost of findPath as a function of what it reads: the *)
(* elevations of u and v, the usage count and the proximity of v, and the  *)
(* direction of the move.  The terrain cost reads the elevations through   *)
(* their difference and through v being water, so u is drawn from the      *)
(* whole range and v from water, the lowest elevation and MaxClimb: every  *)
(* descent is covered, and the climbs up to MaxClimb + 1 (costs are held   *)
(* in 32 bits, which the steeper climbs exceed; the cost of a climb grows  *)
(* with its height).                                                       *)

MaxElevation == 255

MaxClimb == 150

UsageProbe == {0, 1, maxUses - 1, maxUses, maxUses + 1, USAGE_MAX}

ProximityProbe(var) ==
    {0, CityThreshold(var) - 1, CityThreshold(var), Infinity}

InitCost ==
    /\ variant \in Variants
    /\ data = Deserted
    /\ currentRegion \in (IF variant = "main3" THEN {"china", "usa"} ELSE {"china"})
    /\ width = 0
    /\ height = 0
    /\ cities = <<>>
    /\ elevationGrid = <<>>
    /\ roadUsageGrid = <<>>
    /\ cityInfluenceGrid = <<>>
    /\ fp \in [status : {"edge"}, eu : WATER .. MaxElevation,
               ev : {WATER, 0, MaxClimb}]
    /\ loops = <<>>
    /\ nextPathResolver = 0
    /\ toWorker = <<>>
    /\ toMain = <<>>
    /\ page = [PageInit EXCEPT !.attached = FALSE]
    /\ hist = HistInit

\* steps 1 to 4 of the edge cost for the edge at hand
CostEdge ==
    /\ fp.status = "edge"
    /\ \E usageCount \in UsageProbe, cityDistance \in ProximityProbe(variant),
          isDiagonal \in BOOLEAN :
          fp' = [status |-> "costed", eu |-> fp.eu, ev |-> fp.ev,
                 usageCount |-> usageCount, cityDistance |-> cityDistance,
                 isDiagonal |-> isDiagonal,
                 moveCost |-> MoveCost(variant, currentRegion, fp.eu, fp.ev,
                                       usageCount, cityDistance, isDiagonal)]
    /\ UNCHANGED <<variant, width, height, elevationGrid, roadUsageGrid,
                   cityInfluenceGrid, cities, currentRegion, data, loops,
                   nextPathResolver, toWorker, toMain, page, hist>>

SpecCost == InitCost /\ [][CostEdge]_vars

----------------------------------------------------------------------------
(* SpecQueue: a PriorityQueue under any sequence of enqueue and dequeue.   *)
(* fp holds the queue, the entries put in and not yet taken out (counted   *)
(* apart from the heap), and what the latest dequeue returned and the      *)
(* least priority the heap held when it was called.                        *)

MaxHeap == 4

MaxPriority == 2

QueueElements == {0, 1}

NothingReturned == [element |-> -1, priority |-> -1, least |-> -1]

InitQueue ==
    /\ variant = "worker"
    /\ data = Deserted
    /\ currentRegion = "china"
    /\ width = 0
    /\ height = 0
    /\ cities = <<>>
    /\ elevationGrid = <<>>
    /\ roadUsageGrid = <<>>
    /\ cityInfluenceGrid = <<>>
    /\ fp = [status |-> "queue", pq |-> <<>>, stored |-> EmptyBag,
             returned |-> NothingReturned]
    /\ loops = <<>>
    /\ nextPathResolver = 0
    /\ toWorker = <<>>
    /\ toMain = <<>>
    /\ page = [PageInit EXCEPT !.attached = FALSE]
    /\ hist = HistInit

QueueUnchanged ==
    UNCHANGED <<variant, width, height, elevationGrid, roadUsageGrid,
                cityInfluenceGrid, cities, currentRegion, data, loops,
                nextPathResolver, toWorker, toMain, page, hist>>

\* pq.enqueue(element, priority)
QueueEnqueue ==
    /\ fp.status = "queue"
    /\ Len(fp.pq) < MaxHeap
    /\ \E element \in QueueElements, priority \in 0 .. MaxPriority :
          fp' = [fp EXCEPT
                    !.pq = Enqueue(@, element, priority),
                    !.stored = @ (+) SetToBag({[element |-> element,
                                               priority |-> priority]})]
    /\ QueueUnchanged

\* pq.dequeue() on a queue that is not empty
QueueDequeue ==
    /\ fp.status = "queue"
    /\ fp.pq # <<>>
    /\ fp' = [fp EXCEPT
                 !.pq = DequeueRest(@),
                 !.stored = @ (-) SetToBag({fp.pq[1]}),
                 !.returned =
                     [element |-> DequeueMin(fp.pq),
                      priority |-> fp.pq[1].priority,
                      least |-> CHOOSE m \in 0 .. MaxPriority :
                                   /\ \E k \in 1 .. Len(fp.pq) :
                                         fp.pq[k].priority = m
                                   /\ \A k \in 1 .. Len(fp.pq) :
                                         fp.pq[k].priority >= m]]
    /\ QueueUnchanged

NextQueue == QueueEnqueue \/ QueueDequeue

SpecQueue == InitQueue /\ [][NextQueue]_vars

----------------------------------------------------------------------------
(* SpecBatch: one pass of the loop body on the long map, where findPath    *)
(* posts progress batches before it ends.  Nobody takes the messages off   *)
(* the channel, so toMain is the list of all that was posted.              *)

InitBatch ==
    /\ variant \in Variants
    /\ data = Long
    /\ currentRegion = "china"
    /\ width = data.width
    /\ height = data.height
    /\ cities = data.cities
    /\ elevationGrid = ElevationGridOf(data.imageData, data.width, data.height)
    /\ roadUsageGrid = ZeroUsage(data.width * data.height)
    /\ cityInfluenceGrid = CityInfluence(variant, data.cities, data.width, data.height)
    /\ fp = Idle
    /\ loops = <<NewLoop("select")>>
    /\ nextPathResolver = 0
    /\ toWorker = <<>>
    /\ toMain = <<>>
    /\ page = [PageInit EXCEPT !.startDisabled = TRUE]
    /\ hist = [HistInit EXCEPT !.startsSent = 1]

SpecBatch == InitBatch /\ [][NextSearch]_vars

----------------------------------------------------------------------------
(* SpecSystem: worker.js with the page script, from the page's load.       *)

SystemWorlds == {Flat2, Strait, WaterRow, Lonely}

InitBlank(worlds, pg) ==
    /\ data \in worlds
    /\ currentRegion = "china"
    /\ width = 0
    /\ height = 0
    /\ cities = <<>>
    /\ elevationGrid = <<>>
    /\ roadUsageGrid = <<>>
    /\ cityInfluenceGrid = <<>>
    /\ fp = Idle
    /\ loops = <<>>
    /\ nextPathResolver = 0
    /\ toWorker = <<>>
    /\ toMain = <<>>
    /\ page = pg
    /\ hist = HistInit

InitSystem == variant = "worker" /\ InitBlank(SystemWorlds, PageInit)

WorkerStep ==
    \/ StartMsg
    \/ ReadyMsg
    \/ \E l \in 1 .. Len(loops) : SetupCities(l)
    \/ \E l \in 1 .. Len(loops) : SetupGrid(l)
    \/ \E l \in 1 .. Len(loops) : Iterate(l)
    \/ SearchStep
    \/ \E l \in 1 .. Len(loops) : LoopFinish(l)
    \/ \E l \in 1 .. Len(loops) : TimerFire(l)

NextSystem ==
    \/ ClickStart
    \/ PageRecv
    \/ \E k \in 1 .. Len(page.lightnings) : Flash(k)
    \/ WorkerStep

SpecSystem == InitSystem /\ [][NextSystem]_vars

----------------------------------------------------------------------------
(* SpecEnv: each worker script against the free environment.               *)

EnvWorlds == {Flat2, Strait, Lonely}

InitEnv ==
    /\ variant \in Variants
    /\ InitBlank(EnvWorlds, [PageInit EXCEPT !.attached = FALSE])

NextEnv ==
    \/ EnvStart
    \/ EnvReady
    \/ WorkerStep

SpecEnv == InitEnv /\ [][NextEnv]_vars

----------------------------------------------------------------------------
(* SpecYield: the loop on a loaded map where a search of main.js awaits a  *)
(* timeout, against an environment that posts start, readyForNextPath and  *)
(* loadRegion while a search is suspended.  The run is taken up before its *)
(* last search; the usage field is that of a map every pixel of which has  *)
(* been on one path.                                                       *)

InitYield ==
    /\ variant \in Variants
    /\ data = Mid
    /\ currentRegion = "china"
    /\ width = data.width
    /\ height = data.height
    /\ cities = data.cities
    /\ elevationGrid = ElevationGridOf(data.imageData, data.width, data.height)
    /\ roadUsageGrid = [p \in 1 .. data.width * data.height |-> 1]
    /\ cityInfluenceGrid = CityInfluence(variant, data.cities, data.width, data.height)
    /\ fp = Idle
    /\ loops = <<NewLoop("select")>>
    /\ nextPathResolver = 0
    /\ toWorker = <<>>
    /\ toMain = <<>>
    /\ page = [PageInit EXCEPT !.attached = FALSE]
    /\ hist = [HistInit EXCEPT !.startsSent = 1,
                               !.findingCount = MaxSearches - 1,
                               !.lastResult = "path"]

NextYield ==
    \/ WorkerStep
    \/ Suspended /\ EnvStart
    \/ Suspended /\ EnvReady
    \/ Suspended /\ EnvLoadRegion
    \/ LoadRegionMsg
    \/ \E l \in 1 .. Len(loops) : LoadCities(l)
    \/ \E l \in 1 .. Len(loops) : LoadGrid(l)

SpecYield == InitYield /\ [][NextYield]_vars

----------------------------------------------------------------------------
(* SpecRace: worker.js with two simulationLoops on the map Fork, after a   *)
(* second start message and its setup.  The first loop has had its first   *)
(* path and awaits readyForNextPath; the second has entered findPath from  *)
(* A to B on the fresh fields.  The run is taken up where that search has  *)
(* posted its first batch and awaits the timeout.  Of the picks            *)
(* weightedRandom may make the run follows one, C and B.  The environment  *)
(* posts readyForNextPath while a search awaits a timeout.                 *)

Picked(l) ==
    /\ loops'[l].startCity = 3
    /\ loops'[l].endCity = 2

\* the search f on the arrays g, taken with no tie through at most n turns,
\* or as far as the first timeout it awaits
RECURSIVE ToFirstYield(_, _, _)
ToFirstYield(f, g, n) ==
    IF f.status # "running" \/ f.atYield THEN f
    ELSE IF n <= 1
    THEN FindPathStep(f, {}, TRUE, variant, currentRegion, g, g.w, g.h)
    ELSE CHOOSE r \in { ToFirstYield(x, g, n - n \div 2) :
                          x \in {ToFirstYield(f, g, n \div 2)} } : TRUE

InitRace ==
    /\ variant = "worker"
    /\ data = Fork
    /\ currentRegion = "china"
    /\ width = data.width
    /\ height = data.height
    /\ cities = data.cities
    /\ elevationGrid = ElevationGridOf(data.imageData, data.width, data.height)
    /\ roadUsageGrid = ZeroUsage(data.width * data.height)
    /\ cityInfluenceGrid = CityInfluence(variant, data.cities, data.width, data.height)
    /\ fp = ToFirstYield(
               [NewSearch(variant, CityIndex(cities[1], width),
                          CityIndex(cities[2], width), width, height)
                EXCEPT !.loop = 2, !.serial = MaxSearches - 1,
                       !.usage0 = roadUsageGrid],
               [elev |-> elevationGrid, usage |-> roadUsageGrid,
                influence |-> cityInfluenceGrid, w |-> width, h |-> height],
               8 * width * height + 1)
    /\ loops = <<[NewLoop("awaitNext") EXCEPT !.isFirstPath = FALSE],
                 [NewLoop("searching") EXCEPT !.isFirstPath = FALSE,
                                              !.startCity = 1, !.endCity = 2]>>
    /\ nextPathResolver = 1
    /\ toWorker = <<>>
    /\ toMain = <<>>
    /\ page = [PageInit EXCEPT !.attached = FALSE]
    /\ hist = [HistInit EXCEPT !.startsSent = 2,
                               !.findingCount = MaxSearches - 1,
                               !.lastResult = "searching"]

NextRace ==
    \/ Suspended /\ EnvReady
    \/ ReadyMsg
    \/ \E l \in 1 .. Len(loops) : Iterate(l) /\ Picked(l)
    \/ SearchStep
    \/ \E l \in 1 .. Len(loops) : LoopFinish(l)

SpecRace == InitRace /\ [][NextRace]_vars

----------------------------------------------------------------------------
(* SpecLoad: each worker script with the page script, loads that may fail. *)

LoadWorlds == {Flat2, Strait, Lonely, Deserted, Twins}

InitLoad ==
    /\ variant \in Variants
    /\ InitBlank(LoadWorlds, PageInit)

NextLoad ==
    \/ NextSystem
    \/ \E l \in 1 .. Len(loops) : SetupFails(l)

SpecLoad == InitLoad /\ [][NextLoad]_vars

----------------------------------------------------------------------------
(* SpecGrid: createCostGrid on any raster record, also one whose buffer    *)
(* does not fit its dimensions.  The state is that of a setup that has    *)
(* stored the settlements and the raster and is about to build the grids. *)

MaxSide == 2
MaxBuffer == 4

RasterInputs ==
    [width : 0 .. MaxSide, height : 0 .. MaxSide,
     imageData : UNION { [1 .. n -> {G2, Sea, Drift}] : n \in 0 .. MaxBuffer },
     cities : {<<City("A", 0, 0), City("B", 2, 2)>>}]

InitGrid ==
    /\ variant \in Variants
    /\ data \in RasterInputs
    /\ currentRegion = "china"
    /\ width = 0
    /\ height = 0
    /\ cities = data.cities
    /\ elevationGrid = <<>>
    /\ roadUsageGrid = <<>>
    /\ cityInfluenceGrid = <<>>
    /\ fp = Idle
    /\ loops = <<NewLoop("fetchImage")>>
    /\ nextPathResolver = 0
    /\ toWorker = <<>>
    /\ toMain = <<>>
    /\ page = [PageInit EXCEPT !.startDisabled = TRUE]
    /\ hist = [HistInit EXCEPT !.startsSent = 1]

NextGrid == \E l \in 1 .. Len(loops) : SetupGrid(l)

SpecGrid == InitGrid /\ [][NextGrid]_vars

----------------------------------------------------------------------------
(* Vocabulary of the properties *)

\* for probing the cost at usage values up to and past the discount cap
MaxUsageProbe == 16

Adjacent8(a, b, w) ==
    /\ a # b
    /\ Abs((a % w) - (b % w)) <= 1
    /\ Abs((a \div w) - (b \div w)) <= 1

NoRepeats(path) ==
    \A i, j \in 1 .. Len(path) : i # j => path[i] # path[j]

\* sum of the edge costs along a path, on the grids as they are
RECURSIVE PathCost(_)
PathCost(path) ==
    IF Len(path) < 2 THEN 0
    ELSE EdgeCost(variant, currentRegion, elevationGrid, roadUsageGrid,
                  cityInfluenceGrid, width, path[1], path[2])
         + PathCost(Tail(path))

MinOf(S) == CHOOSE m \in S : \A x \in S : m <= x

\* One round of relaxing every edge: d is the array of least costs found so
\* far (Infinity where none), the result holds for each pixel v the least of
\* d[v] and d[u] + cost(u -> v) over its neighbours u.
RECURSIVE RelaxEveryEdge(_, _)
RelaxEveryEdge(d, acc) ==
    LET v == Len(acc)
    IN  IF v >= Len(d) THEN acc
        ELSE LET nb == GetNeighbors(v, width, height)
                 reached == { j \in 1 .. Len(nb) : At(d, nb[j].index) # Infinity }
             IN  RelaxEveryEdge(d,
                     Append(acc,
                            MinOf({At(d, v)} \cup
                                  { At(d, nb[j].index)
                                      + EdgeCost(variant, currentRegion,
                                                 elevationGrid, roadUsageGrid,
                                                 cityInfluenceGrid, width,
                                                 nb[j].index, v) :
                                    j \in reached })))

RECURSIVE LeastCosts(_, _)
LeastCosts(d, rounds) ==
    IF rounds = 0 \/ Len(d) = 0 THEN d
    ELSE LeastCosts(RelaxEveryEdge(d, <<>>), rounds - 1)

\* least cost from s to e over all 8-connected walks (independent of findPath
\* and its queue)
LeastCost(s, e) ==
    At(LeastCosts(Put([p \in 1 .. width * height |-> Infinity], s, 0),
                  width * height), e)

\* the loop that has just come back from findPath
Searched(l) == l \in 1 .. Len(loops) /\ loops[l].pc = "searched"

\* the step in which that loop posts pathFound and reinforces the path
Reinforces(l) ==
    /\ Searched(l)
    /\ fp.status = "path"
    /\ loops'[l].pc # "searched"

----------------------------------------------------------------------------
(* Properties of findPath and of the reinforcement step (SpecSearch) *)

\* C1: whenever findPath returns a path for two settlements whose rounded
\* pixels lie inside the grid, the path starts at the start settlement's
\* pixel round(y)*width+round(x), ends at the end settlement's pixel, and
\* every two consecutive indices are distinct, 8-adjacent pixels.
C1_PathJoinsSettlements ==
    \A l \in 1 .. Len(loops) :
        (Searched(l) /\ fp.status = "path"
         /\ CityInBounds(cities[loops[l].startCity], width, height)
         /\ CityInBounds(cities[loops[l].endCity], width, height))
        => /\ Len(fp.path) >= 1
           /\ fp.path[1] = MathRound(cities[loops[l].startCity].y) * width
                           + MathRound(cities[loops[l].startCity].x)
           /\ fp.path[Len(fp.path)] =
                  MathRound(cities[loops[l].endCity].y) * width
                  + MathRound(cities[loops[l].endCity].x)
           /\ \A k \in 1 .. Len(fp.path) - 1 :
                  /\ fp.path[k] \in Pixels(width, height)
                  /\ fp.path[k + 1] \in Pixels(width, height)
                  /\ Adjacent8(fp.path[k], fp.path[k + 1], width)

\* worker.js returned a path of six pixels with straight and diagonal steps,
\* between settlements whose coordinates had to be rounded
C1_Witness ==
    /\ variant = "worker"
    /\ fp.status = "path"
    /\ Len(fp.path) = 6
    /\ \E k \in 1 .. 5 : Abs(fp.path[k] - fp.path[k + 1]) \in {1, width}
    /\ \E k \in 1 .. 5 : Abs(fp.path[k] - fp.path[k + 1]) \notin {1, width}
    /\ \E l \in 1 .. Len(loops) :
          Searched(l) /\ cities[loops[l].startCity].x % 2 = 1

\* C2: on every grid and for every two settlements at distinct in-bounds
\* pixels, findPath of worker.js returns a path, never the no-path result.
C2_WorkerAlwaysFindsPath ==
    \A l \in 1 .. Len(loops) :
        (variant = "worker" /\ Searched(l)
         /\ CityInBounds(cities[loops[l].startCity], width, height)
         /\ CityInBounds(cities[loops[l].endCity], width, height)
         /\ fp.startIndex # fp.endIndex)
        => fp.status # "none"

\* C3: whenever findPath returns a path, the sum of its edge costs on the
\* usage field of the search equals the least such sum over all 8-connected
\* paths between the two endpoint pixels.
C3_PathIsCheapest ==
    (fp.status = "path" /\ \E l \in 1 .. Len(loops) : Searched(l))
    => PathCost(fp.path) = LeastCost(fp.startIndex, fp.endIndex)

\* a returned path that had to go around the rise, over a field that carries
\* usage, found after more pixels were processed than the path holds
C3_Witness ==
    /\ fp.status = "path"
    /\ \E l \in 1 .. Len(loops) : Searched(l)
    /\ data = Cliff
    /\ Len(fp.path) >= 5
    /\ \E p \in 1 .. Len(roadUsageGrid) : roadUsageGrid[p] > 0
    /\ fp.processedCount > Len(fp.path)

\* C8: the step after pathFound raises the usage counter of every pixel of
\* the returned path by exactly 1 (no pixel occurs twice on it), except that
\* a counter at 65535 stays there; every other counter is unchanged.
C8_ReinforceByOne ==
    [][\A l \in 1 .. Len(loops) :
         Reinforces(l) =>
           /\ NoRepeats(fp.path)
           /\ Len(roadUsageGrid') = Len(roadUsageGrid)
           /\ \A p \in Pixels(width, height) :
                At(roadUsageGrid', p) =
                  IF \E k \in 1 .. Len(fp.path) : fp.path[k] = p
                  THEN (IF At(roadUsageGrid, p) = 65535 THEN 65535
                        ELSE At(roadUsageGrid, p) + 1)
                  ELSE At(roadUsageGrid, p)]_vars

\* after a pathFound: one pixel of the path was at 65535 and still is, another
\* went from 65534 to 65535, and a pixel off the path is still at 65534
C8_Witness ==
    /\ hist.lastResult = "path"
    /\ fp = Idle
    /\ \E m \in 1 .. Len(toMain) :
         /\ toMain[m].type = "pathFound"
         /\ \E a, b \in 1 .. Len(toMain[m].path) :
              /\ (toMain[m].path[a] + 1) % 2 = 0
              /\ (toMain[m].path[b] + 1) % 2 = 1
              /\ At(roadUsageGrid, toMain[m].path[a]) = USAGE_MAX
              /\ At(roadUsageGrid, toMain[m].path[b]) = USAGE_MAX
    /\ \E p \in 1 .. Len(roadUsageGrid) : roadUsageGrid[p] = USAGE_MAX - 1
    /\ \A p \in 1 .. Len(roadUsageGrid) : roadUsageGrid[p] >= USAGE_MAX - 1

\* the cost of the edge u -> v of the loaded map if v had been used k times
CostAtUsage(u, v, isDiagonal, k) ==
    MoveCost(variant, currentRegion, At(elevationGrid, u), At(elevationGrid, v),
             k, At(cityInfluenceGrid, v), isDiagonal)

\* C10: for fixed u, v, terrain and proximity the edge cost into v does not
\* increase as usage(v) goes from 0 to 12, and is the same for every usage
\* of 12 or more, where the discount is 30%.
C10_DiscountMonotoneAndCapped ==
    fp = Idle =>
    \A u \in Pixels(width, height) :
      LET nb == GetNeighbors(u, width, height)
      IN  \A j \in 1 .. Len(nb) :
            LET Cost(k) == CostAtUsage(u, nb[j].index, nb[j].isDiagonal, k)
            IN  /\ \A k \in 0 .. MaxUsageProbe : Cost(k + 1) <= Cost(k)
                /\ \A k \in (12 .. MaxUsageProbe) \cup {USAGE_MAX - 1, USAGE_MAX} :
                       Cost(k) = Cost(12)
                /\ 10 * Cost(12) = 7 * Cost(0)
                /\ Cost(12) > 0

\* the reinforcement step has taken a pixel that was past the cap further
C10_Witness ==
    /\ hist.lastResult = "path"
    /\ \E p \in 1 .. Len(roadUsageGrid) : roadUsageGrid[p] = 14
    /\ \E p \in 1 .. Len(roadUsageGrid) : roadUsageGrid[p] = 12

----------------------------------------------------------------------------
(* Properties of the driver loop and its messages *)

\* some loop waits for readyForNextPath, and none is on its way: no message
\* is in flight either way and no animation of the page is running
WaitsInVain ==
    /\ \E l \in 1 .. Len(loops) :
          loops[l].pc = "awaitNext" /\ nextPathResolver = l
    /\ \A l \in 1 .. Len(loops) : loops[l].pc = "awaitNext"
    /\ toWorker = <<>>
    /\ toMain = <<>>
    /\ page.lightnings = <<>>
    /\ page.startDisabled

C5_ReadyGatesEachLaterSearch ==
    [][(hist.startsSent = 1 /\ hist.findingCount >= 1
        /\ hist'.findingCount > hist.findingCount)
       => (hist.readySinceEnd /\ ~hist'.readySinceEnd
           /\ hist.readySent >= hist.findingCount)]_vars

\* one start, two findingPath events, and the one readyForNextPath that was
\* ever posted came between them
C5_Witness ==
    /\ hist.startsSent = 1
    /\ hist.findingCount = 2
    /\ hist.readySent = 1
    /\ hist.lastResult = "searching"

\* C6: main.js workers (100 ms minimum cycle): a readyForNextPath handled at
\* any moment after pathFound was posted, also while the driver sleeps in the
\* minimum-cycle timeout, is not lost: once the timeout has elapsed the
\* driver goes on to the next search without a further readyForNextPath.
C6_ReadyIsNotLost ==
    ~(/\ variant \in {"main2", "main3"}
      /\ hist.startsSent = 1
      /\ hist.lastResult = "path"
      /\ hist.readySinceEnd
      /\ toWorker = <<>>
      /\ \E l \in 1 .. Len(loops) :
            loops[l].pc = "awaitNext" /\ nextPathResolver = l)

\* the step is the start handler zeroing the usage field (main.js)
StartZeroes ==
    /\ variant # "worker"
    /\ toWorker # <<>> /\ Head(toWorker).type = "start"
    /\ toWorker' = Tail(toWorker)
    /\ roadUsageGrid' = ZeroUsage(Len(roadUsageGrid))

\* the step is createCostGrid putting a fresh field in place, in a setup
\* that a start message began
SetupReplaces ==
    /\ \E l \in 1 .. Len(loops) :
          loops[l].pc = "fetchImage" /\ loops'[l].pc = "select"
    /\ roadUsageGrid' = ZeroUsage(data.width * data.height)

\* the step is the reinforcement after a completed path
ReinforcementWrites ==
    /\ \E l \in 1 .. Len(loops) : Reinforces(l)
    /\ Len(roadUsageGrid') = Len(roadUsageGrid)
    /\ \A p \in 1 .. Len(roadUsageGrid) : roadUsageGrid'[p] >= roadUsageGrid[p]

\* C9 as stated: once the simulation has started, whatever start and
\* readyForNextPath messages arrive, no usage counter ever decreases, and
\* only the reinforcement step writes the usage field.
C9_OnlyReinforcementWrites ==
    [][(roadUsageGrid # <<>> /\ roadUsageGrid' # roadUsageGrid)
       => ReinforcementWrites]_vars

\* C9, amended: the usage field is written by the reinforcement step, which
\* never lowers a counter, and besides only when a start message is at
\* work: its handler zeroes the field (main.js) and the setup it begins puts
\* a fresh zero field in place.
C9_WritesAreReinforcementOrRestart ==
    [][(roadUsageGrid # <<>> /\ roadUsageGrid' # roadUsageGrid)
       => (ReinforcementWrites \/ StartZeroes \/ SetupReplaces)]_vars

\* a second start was handled after a path had been reinforced: the field of
\* main2 is back at zero while its first loop still waits for the page
C9_Witness ==
    /\ variant = "main2"
    /\ hist.startsSent = 2
    /\ hist.lastResult = "path"
    /\ roadUsageGrid # <<>>
    /\ \A p \in 1 .. Len(roadUsageGrid) : roadUsageGrid[p] = 0
    /\ Len(loops) = 2
    /\ loops[2].pc = "fetchCities"

----------------------------------------------------------------------------
(* Properties of createCostGrid and of the move cost *)

\* length of the shortest 8-connected walk between pixels p and c of the
\* open grid: a diagonal step for each of min(dx, dy), a straight step for
\* the rest, in the units of the proximity field
WalkLength(p, c, w) ==
    LET dx == Abs((p % w) - (c % w))
        dy == Abs((p \div w) - (c \div w))
    IN  Min(dx, dy) * SQRT2_NUM + (Max(dx, dy) - Min(dx, dy)) * SQRT2_DEN

\* pixels of the settlements that lie inside the grid
SettlementPixels ==
    { CityIndex(cities[c], width) :
        c \in { k \in 1 .. Len(cities) : CityInBounds(cities[k], width, height) } }

\* what the proximity field should hold at p
NearestSettlement(p) ==
    LET ds == { WalkLength(p, c, width) : c \in SettlementPixels }
    IN  IF ds = {} \/ MinOf(ds \cup {Infinity}) > SearchRadius(variant)
        THEN Infinity
        ELSE MinOf(ds)

\* C11: after createCostGrid every pixel's proximity value is the length of
\* the shortest 8-connected walk (1 per straight step, sqrt 2 per diagonal
\* step) to the nearest in-bounds settlement pixel when that length is
\* within the radius, and the far value otherwise.
C11_ProximityIsShortestWalk ==
    cityInfluenceGrid # <<>> =>
        \A p \in Pixels(width, height) :
            At(cityInfluenceGrid, p) = NearestSettlement(p)

\* proximity values to probe: those of the loaded map and the ones around
\* the radius and the threshold of the discount
NearValues ==
    ({ At(cityInfluenceGrid, p) : p \in Pixels(width, height) }
     \cup { 0, SearchRadius(variant), CityThreshold(variant) - 1,
            CityThreshold(variant) })
    \ {Infinity}

\* C12: source pixel, terrain, usage and direction being the same, a move
\* into a pixel with a finite proximity value never costs more than the
\* move into a pixel that holds the far value.
C12_NearNeverDearer ==
    fp = Idle =>
    \A u \in Pixels(width, height) :
      LET nb == GetNeighbors(u, width, height)
      IN  \A j \in 1 .. Len(nb) :
          \A k \in {0, 1, maxUses, USAGE_MAX} :
          \A d \in NearValues :
             MoveCost(variant, currentRegion, At(elevationGrid, u),
                      At(elevationGrid, nb[j].index), k, d, nb[j].isDiagonal)
             <= MoveCost(variant, currentRegion, At(elevationGrid, u),
                         At(elevationGrid, nb[j].index), k, Infinity,
                         nb[j].isDiagonal)

\* a path was laid across the causeway of a main.js worker, whose middle
\* pixel holds the far value while its neighbours are near a settlement,
\* and entering the neighbour is cheaper
C12_Witness ==
    /\ data = Causeway
    /\ variant = "main2"
    /\ hist.lastResult = "path"
    /\ At(cityInfluenceGrid, 6) = Infinity
    /\ At(cityInfluenceGrid, 5) < Infinity
    /\ At(roadUsageGrid, 6) = 1
    /\ EdgeCost(variant, currentRegion, elevationGrid, ZeroUsage(width),
                cityInfluenceGrid, width, 6, 5)
       < EdgeCost(variant, currentRegion, elevationGrid, ZeroUsage(width),
                  cityInfluenceGrid, width, 5, 6)

----------------------------------------------------------------------------
(* Properties of loading and of the driver on degenerate settlement sets   *)
(* (SpecLoad, SpecSystem)                                                  *)

\* C13: once a step of setup has failed, no findingPath is emitted and no
\* search runs.
C13_NoSearchAfterFailedLoad ==
    hist.loadFailed => (hist.findingCount = 0 /\ fp = Idle)

\* the raster record does not describe width * height pixels
RasterMalformed ==
    \/ data.width = 0
    \/ data.height = 0
    \/ Len(data.imageData) # data.width * data.height

\* C14: createCostGrid installs no grid when the raster has a zero side or
\* a buffer that does not hold width * height pixels, and installs the three
\* grids for every other raster.
C14_GridRejectsBadRaster ==
    \A l \in 1 .. Len(loops) :
        loops[l].pc = "select" =>
            (RasterMalformed <=> (/\ elevationGrid = <<>>
                                  /\ roadUsageGrid = <<>>
                                  /\ cityInfluenceGrid = <<>>))

\* the step in which loop l, at the top of its while body, finds the
\* settlement list empty after a load that went well
FindsNoSettlement(l) ==
    /\ l \in 1 .. Len(loops)
    /\ ~hist.loadFailed
    /\ loops[l].pc = "select"
    /\ cities = <<>>
    /\ loops'[l].pc # "select"

\* C15: a driver that finds the settlement set empty tells the consumer so
\* with an error message, emits no findingPath, and neither dies silently
\* nor goes on to wait and retry.
C15_EmptySetIsReported ==
    [][\A l \in 1 .. Len(loops) :
         FindsNoSettlement(l) =>
           /\ Len(toMain') = Len(toMain) + 1
           /\ toMain'[Len(toMain')].type = "error"
           /\ hist'.findingCount = hist.findingCount
           /\ loops'[l].pc \notin {"crashed", "noCityWait"}]_vars

\* C16: worker.js with the page script and exactly one settlement: the
\* driver keeps retrying, so it is never left waiting for a readyForNextPath
\* that nothing will send, and it emits no findingPath.
C16_LoneSettlementRetries ==
    (Len(cities) = 1 /\ ~hist.loadFailed)
    => (hist.findingCount = 0 /\ ~WaitsInVain)

----------------------------------------------------------------------------
(* Properties of the events sent to the consumer *)

\* the step in which loop l leaves a search that ended without a path
EndsWithoutPath(l) ==
    /\ Searched(l)
    /\ fp.status = "none"
    /\ loops'[l].pc # "searched"

\* the step posts exactly one message to the consumer
PostsOne == page.attached /\ Len(toMain') = Len(toMain) + 1

Posted == toMain'[Len(toMain')]

\* C17: when a search has ended without a path the driver posts a
\* noPathFound message, not a log line, that names the two settlements.
C17_NoPathIsAnEvent ==
    [][\A l \in 1 .. Len(loops) :
         EndsWithoutPath(l) =>
           /\ PostsOne
           /\ Posted.type = "noPathFound"
           /\ Posted.startCity = loops[l].startCity
           /\ Posted.endCity = loops[l].endCity]_vars

MaxBatch(var) == IF var = "worker" THEN maxFrequency ELSE maxUpdateFrequency

\* the batches posted so far (nothing takes events off the channel in
\* SpecBatch, and a run holds one search)
EarlierBatches == {i \in 1 .. Len(toMain) : toMain[i].type = "pathfindingUpdate"}

\* C19: every pathfindingUpdate payload is non-empty and no longer than the
\* variant's maximum batch size, and a batch posted while the search goes
\* on is at least as long as every earlier batch of that search.
C19_BatchSizesGrow ==
    [][(PostsOne /\ Posted.type = "pathfindingUpdate") =>
         /\ Posted.payload # <<>>
         /\ Len(Posted.payload) <= MaxBatch(variant)
         /\ fp'.status = "running" =>
              \A i \in EarlierBatches :
                  Len(toMain[i].payload) <= Len(Posted.payload)]_vars

\* every turn of the search loop takes one entry off the queue, and an entry
\* is put on it only for a neighbor of a pixel being processed, which
\* happens once per pixel
TurnBound(w, h) == 8 * w * h + 1

\* C20: every call of findPath comes to an end, whatever the grid and the
\* two endpoint indices, those outside the arrays included: it never gets
\* into a loop without an exit, and the turns of its search loop are
\* bounded, so that it returns a path or the no-path result.
C20_FindPathTerminates ==
    /\ fp.status \in {"idle", "running", "path", "none"}
    /\ fp.status = "running" => fp.count <= TurnBound(width, height)

\* a loop leaves the top of its while body
Selects(l) ==
    /\ l \in 1 .. Len(loops) /\ Len(loops') = Len(loops)
    /\ loops[l].pc = "select" /\ loops'[l].pc # "select"

\* C21: every findingPath event names two different settlements: the end
\* settlement is never the start settlement, and when pickEndCity returns
\* nothing, no search is started and no findingPath is posted.
C21_EndsDiffer ==
    [][\A l \in 1 .. Len(loops) : Selects(l) =>
         IF loops'[l].pc = "searching"
         THEN /\ loops'[l].startCity # loops'[l].endCity
              /\ PostsOne /\ Posted.type = "findingPath"
              /\ Posted.payload = <<cities[loops'[l].startCity].name,
                                    cities[loops'[l].endCity].name>>
              /\ Posted.payload[1] # Posted.payload[2]
         ELSE /\ fp' = fp
              /\ ~(PostsOne /\ Posted.type = "findingPath")]_vars

\* a search between a settlement that has a namesake and the third one
C21_Witness ==
    /\ data = Twins
    /\ \E l \in 1 .. Len(loops) :
          /\ loops[l].pc = "searching"
          /\ cities[loops[l].startCity].name = "A"
          /\ cities[loops[l].endCity].name = "B"
    /\ Len(toMain) > 0 /\ toMain[Len(toMain)].type = "findingPath"

\* what the edge-cost function of the running search reads
SearchInputs ==
    [elev |-> Held.elev, usage |-> Held.usage, influence |-> Held.influence,
     region |-> RegionOf(variant, currentRegion)]

\* C22: while a search is suspended at a yield point, whatever message the
\* worker handles (start, readyForNextPath, loadRegion), the elevation,
\* usage and proximity fields and the region cost parameters that the
\* edge-cost function reads stay as they are.
C22_HandlersLeaveSearchInputs ==
    [][Suspended => SearchInputs' = SearchInputs]_vars

\* C23: the usage values that go out with a pathFound event (pathWithUsage)
\* are the updated ones: for every pixel of the path the value reported is
\* the usage counter as the reinforcement of that path leaves it.
C23_ReportedUsageIsUpdated ==
    [][(PostsOne /\ Posted.type = "pathFound" /\ variant # "worker") =>
         \A k \in 1 .. Len(Posted.pathWithUsage) :
             Posted.pathWithUsage[k].usage
                 = At(roadUsageGrid', Posted.pathWithUsage[k].index)]_vars

\* C24: the event that hands the settlement list to the consumer
\* (citiesData) is posted only when the settlements and the three grid
\* fields (elevation, usage, proximity) are loaded and built.
C24_CitiesDataAfterGrid ==
    [][(PostsOne /\ Posted.type = "citiesData") =>
         /\ cities' = data.cities
         /\ elevationGrid' # <<>>
         /\ roadUsageGrid' # <<>>
         /\ cityInfluenceGrid' # <<>>]_vars

\* the search from (0,0) to (3,3) on the 4x4 map has ended
ScenarioEnded ==
    /\ data = Flat4
    /\ fp.status \in {"path", "none", "hung"}
    /\ fp.startIndex = 0 /\ fp.endIndex = 15

\* C25: on the flat, dry 4x4 grid with a fresh usage field findPath from
\* (0,0) to (3,3) returns the path (0,0),(1,1),(2,2),(3,3): three diagonal
\* steps, whose geometric length is the straight-line distance.
C25_FlatDiagonal ==
    ScenarioEnded =>
        /\ fp.status = "path"
        /\ fp.path = <<0, 5, 10, 15>>
        /\ fp.geometricPathLength = 3 * SQRT2_NUM

\* a search of the pair that was reported last has found a path
FoundAgain ==
    /\ fp.status = "path"
    /\ hist.lastFound.s = fp.startIndex /\ hist.lastFound.e = fp.endIndex
    /\ fp.startIndex # fp.endIndex

ExaminedEdges ==
    IF fp.status = "running" /\ ~fp.atYield /\ fp.pq # <<>>
       /\ InArray(fp.visited, DequeueMin(fp.pq))
       /\ At(fp.visited, DequeueMin(fp.pq)) = 0
    THEN LET u == DequeueMin(fp.pq)
             nbrs == GetNeighbors(u, Held.w, Held.h)
         IN  { [old |-> At(fp.distances, nbrs[k].index),
                moveCost |-> MoveCost(variant, currentRegion,
                                      At(Held.elev, u),
                                      At(Held.elev, nbrs[k].index),
                                      At(Held.usage, nbrs[k].index),
                                      At(Held.influence, nbrs[k].index),
                                      nbrs[k].isDiagonal),
                uDist |-> At(fp.distances, u)] :
               k \in { j \in 1 .. Len(nbrs) : At(fp.visited, nbrs[j].index) = 0 } }
    ELSE {}

MaxProbeTens == 30

ProbeValues == { k * 10 * Scale : k \in 0 .. MaxProbeTens }

\* the costs of the edges of the map in its present state
EdgeCosts ==
    { EdgeCost(variant, currentRegion, elevationGrid, roadUsageGrid,
               cityInfluenceGrid, width, u, v) :
        <<u, v>> \in { e \in Pixels(width, height) \X Pixels(width, height) :
                          Adjacent8(e[1], e[2], width) } }

C28_EdgeCostPositive ==
    fp.status = "costed" => fp.moveCost > 0

\* the steepest descent onto a worn pixel near a settlement: the floor of
\* the terrain cost with every discount applied
C28_Witness ==
    /\ fp.status = "costed"
    /\ fp.eu = MaxElevation /\ fp.ev = 0
    /\ fp.usageCount = USAGE_MAX /\ fp.cityDistance = 0 /\ ~fp.isDiagonal
    /\ fp.moveCost > 0
    /\ fp.moveCost < Scale \div 10

\* the edge cost into pixel p carries the proximity discount
Discounted(p) ==
    CityDiscount(variant, Scale, At(cityInfluenceGrid, p)) < Scale

\* C29: in worker.js a pixel is discounted in the edge cost exactly when
\* createCostGrid gave it a finite proximity: every pixel the expansion
\* reached, one at the radius itself included, and no pixel that holds the
\* far sentinel.
C29_DiscountIffFinite ==
    variant = "worker" =>
        \A p \in 0 .. Len(cityInfluenceGrid) - 1 :
            At(cityInfluenceGrid, p) # Infinity <=> Discounted(p)

\* the three channels of a pixel are pairwise closer than the tolerance
MutuallyClose(px) ==
    /\ Abs(px[1] - px[2]) < waterThreshold
    /\ Abs(px[2] - px[3]) < waterThreshold
    /\ Abs(px[1] - px[3]) < waterThreshold

\* the pixels createCostGrid has read from the buffer into the field
Classified ==
    { p \in 0 .. Len(elevationGrid) - 1 : p < Len(data.imageData) }

\* C30: createCostGrid stores a pixel as land only if its three channels
\* are pairwise closer than the tolerance of 10; every other pixel holds the
\* water sentinel, and a land pixel holds an elevation in 0..255.
C30_LandOnlyIfMutuallyClose ==
    \A p \in Classified :
        IF MutuallyClose(data.imageData[p + 1])
        THEN At(elevationGrid, p) \in 0 .. MaxElevation
        ELSE At(elevationGrid, p) = WATER

\* heap[n] is not above its children
HeapOrdered(heap) ==
    \A n \in 1 .. Len(heap) - 1 :
        heap[(n - 1) \div 2 + 1].priority <= heap[n + 1].priority

RECURSIVE BagOfEntries(_)
BagOfEntries(heap) ==
    IF heap = <<>> THEN EmptyBag
    ELSE BagOfEntries(Tail(heap)) (+) SetToBag({Head(heap)})

\* C31: after any sequence of enqueue and dequeue (dequeue on a non-empty
\* queue) the heap array is in min-heap order, the latest dequeue returned
\* an element of least priority among those stored when it was called, and
\* the heap holds the entries enqueued less the entries dequeued.
C31_QueueIsMinHeap ==
    fp.status = "queue" =>
        /\ HeapOrdered(fp.pq)
        /\ fp.returned.priority = fp.returned.least
        /\ BagOfEntries(fp.pq) = fp.stored

\* a dequeue has reordered a full heap that holds equal and different
\* priorities
C31_Witness ==
    /\ fp.status = "queue"
    /\ Len(fp.pq) = MaxHeap - 1
    /\ fp.returned.priority = 0
    /\ \E j, k \in 1 .. Len(fp.pq) :
          j # k /\ fp.pq[j].priority = fp.pq[k].priority
    /\ \E j, k \in 1 .. Len(fp.pq) : fp.pq[j].priority < fp.pq[k].priority

\* the payloads of the pathfindingUpdate messages among msgs[1 .. n], one
\* after the other
RECURSIVE UpdatePayloads(_, _)
UpdatePayloads(msgs, n) ==
    IF n = 0 THEN <<>>
    ELSE IF msgs[n].type = "pathfindingUpdate"
    THEN UpdatePayloads(msgs, n - 1) \o msgs[n].payload
    ELSE UpdatePayloads(msgs, n - 1)

\* a search that found a path has just ended, its messages still unread
FoundWithUpdates ==
    /\ fp.status = "path"
    /\ page.attached
    /\ hist.findingCount = 1

\* C32: the pathfindingUpdate payloads of a search that returns a path, put
\* one after the other, are the pixels the search settled before it took
\* out the end pixel, in the order it settled them; no pixel is settled
\* twice, and pixels are settled in non-decreasing order of their final
\* distance.
C32_UpdatesAreSettledPixels ==
    FoundWithUpdates =>
        /\ fp.settled # <<>>
        /\ fp.settled[Len(fp.settled)] = fp.endIndex
        /\ UpdatePayloads(toMain, Len(toMain))
             = SubSeq(fp.settled, 1, Len(fp.settled) - 1)
        /\ \A j, k \in 1 .. Len(fp.settled) :
             j < k => /\ fp.settled[j] # fp.settled[k]
                      /\ At(fp.distances, fp.settled[j])
                           <= At(fp.distances, fp.settled[k])

\* a search of main.js that posted batches on its way and the rest at its
\* end
C32_Witness ==
    /\ FoundWithUpdates
    /\ variant # "worker"
    /\ Cardinality({k \in 1 .. Len(toMain) :
                      toMain[k].type = "pathfindingUpdate"}) >= 3
    /\ Len(fp.settled) > 2 * baseUpdateFrequency

\* the search f on the arrays g, taken through at most n turns with no tie
\* and no event between its turns
RECURSIVE Uninterrupted(_, _, _)
Uninterrupted(f, g, n) ==
    IF f.status # "running" THEN f
    ELSE IF n <= 1
    THEN FindPathStep(f, {}, TRUE, variant, currentRegion, g, g.w, g.h)
    ELSE CHOOSE r \in { Uninterrupted(x, g, n - n \div 2) :
                          x \in {Uninterrupted(f, g, n \div 2)} } : TRUE

\* what findPath returned: the path, or null
ResultOf(f) == IF f.status = "path" THEN f.path ELSE <<>>

\* C33: what findPath returns (a path or none, and the pixels of the path)
\* is settled by the fields, the usage field at its entry and the two
\* endpoints: whenever its timeouts fire and whichever readyForNextPath
\* messages arrive while it waits, it returns what the same search returns
\* when nothing happens between its turns.
C33_ResultSetByInputs ==
    fp.status \in {"path", "none"} =>
        LET g == [HeldOf(fp) EXCEPT !.usage = fp.usage0]
        IN  ResultOf(fp)
              = ResultOf(Uninterrupted(
                    NewSearch(variant, fp.startIndex, fp.endIndex, g.w, g.h),
                    g, 2 * TurnBound(g.w, g.h)))

\* C34: the cost of the move from a water pixel u onto a land pixel v does
\* not read the water sentinel as the elevation of u: it is no climb of
\* elev(v) - (-1), so it is the same whatever the elevation of v (the
\* same as onto land at elevation 0).
C34_SentinelIsNoElevation ==
    (fp.status = "costed" /\ fp.eu = WATER /\ fp.ev # WATER) =>
        fp.moveCost = MoveCost(variant, currentRegion, WATER, 0,
                               fp.usageCount, fp.cityDistance, fp.isDiagonal)

\* the direction codes of the eight moves
MoveCodes == {0, 1, 2, 3, 5, 6, 7, 8}

\* the code held for pixel p is that of a move, and the pixel it leads back
\* to lies on the map, next to p, and is settled
LeadsBack(f, p, w, h) ==
    LET code == At(f.predecessors, p)
        x == (p % w) + ((code % 3) - 1)
        y == (p \div w) + ((code \div 3) - 1)
    IN  /\ code \in MoveCodes
        /\ x >= 0 /\ x < w /\ y >= 0 /\ y < h
        /\ At(f.visited, y * w + x) = 1

\* each pixel of the path but the first is reached from the one before it
\* by the move its code tells
RECURSIVE Chained(_, _, _)
Chained(f, w, k) ==
    IF k <= 1 THEN TRUE
    ELSE LET p == f.path[k]
             code == At(f.predecessors, p)
         IN  /\ f.path[k - 1]
                  = ((p \div w) + ((code \div 3) - 1)) * w
                      + (p % w) + ((code % 3) - 1)
             /\ Chained(f, w, k - 1)

\* C35: in a search of worker.js every pixel but the start that is in the
\* queue or settled holds the code of one of the eight moves (not 4, not
\* the unset 255), and the code leads back to a neighbor on the map that is
\* settled; the start pixel keeps 255.  So the reconstruction never meets
\* 255: a returned path begins at the start pixel, ends at the end pixel
\* and follows the codes.
C35_CodesLeadBackToStart ==
    (variant = "worker" /\ fp.status \in {"running", "path", "none"}
     /\ "predecessors" \in DOMAIN fp) =>
        LET g == HeldOf(fp)
        IN  /\ \A p \in 0 .. Len(fp.predecessors) - 1 :
                 (/\ p # fp.startIndex
                  /\ \/ At(fp.visited, p) = 1
                     \/ \E k \in 1 .. Len(fp.pq) : fp.pq[k].element = p)
                     => LeadsBack(fp, p, g.w, g.h)
            /\ InArray(fp.predecessors, fp.startIndex)
                  => At(fp.predecessors, fp.startIndex) = UNSET
            /\ fp.status = "path" =>
                  /\ fp.path # <<>>
                  /\ fp.path[1] = fp.startIndex
                  /\ fp.path[Len(fp.path)] = fp.endIndex
                  /\ Chained(fp, g.w, Len(fp.path))

\* a search of worker.js has returned a path of three pixels or more while
\* pixels it reached are still in the queue
C35_Witness ==
    /\ variant = "worker"
    /\ fp.status = "path"
    /\ Len(fp.path) >= 3
    /\ fp.pq # <<>>
    /\ \A k \in 2 .. Len(fp.path) :
           At(fp.predecessors, fp.path[k]) \in MoveCodes

\* pixel index p is the pixel at the rounded coordinates of the settlement
IsPixelOf(p, city, w, h) ==
    /\ CityInBounds(city, w, h)
    /\ p % w = CityX(city)
    /\ p \div w = CityY(city)

\* C36: a path findPath returns holds only pixel indices of the map, and its
\* first and last pixel are the pixels at the rounded coordinates of the
\* two settlements: for a settlement off the map whose index
\* round(y)*width+round(x) falls within the arrays, no path from or to the
\* pixel of that index is returned.
C36_EndsAreTheSettlements ==
    (fp.status = "path" /\ "loop" \in DOMAIN fp
     /\ fp.loop \in 1 .. Len(loops)) =>
        LET g == HeldOf(fp)
            l == loops[fp.loop]
        IN  /\ \A k \in 1 .. Len(fp.path) : fp.path[k] \in Pixels(g.w, g.h)
            /\ fp.path # <<>>
            /\ IsPixelOf(fp.path[1], cities[l.startCity], g.w, g.h)
            /\ IsPixelOf(fp.path[Len(fp.path)], cities[l.endCity], g.w, g.h)

\* the pcs of a loop that is inside simulationLoop and has not ended
LoopPcs == {"select", "searching", "searched", "hung", "awaitNext",
            "minDelay", "noCityWait"}

ActiveLoops == { l \in 1 .. Len(loops) : loops[l].pc \in LoopPcs }

\* the findPath calls that have begun and not returned
CallsInProgress ==
    IF "parked" \in DOMAIN fp
    THEN Len(fp.parked) + (IF fp.status \in {"running", "hung"} THEN 1 ELSE 0)
    ELSE 0

\* C37: whatever control messages arrive, at most one simulationLoop is
\* active and at most one findPath call is in progress at any time: a start
\* message that arrives while a driver loop runs creates no second loop.
C37_OneDriverLoop ==
    /\ Cardinality(ActiveLoops) <= 1
    /\ CallsInProgress <= 1

\* the page posts readyForNextPath in this step
PostsReady ==
    /\ Len(toWorker') = Len(toWorker) + 1
    /\ toWorker'[Len(toWorker')].type = "readyForNextPath"

\* an animation that has drawn its five flash steps ends in this step
AnimationEnds ==
    \E k \in 1 .. Len(page.lightnings) :
        /\ page.lightnings[k] = 5
        /\ page'.lightnings = RemoveAt(page.lightnings, k)

\* C38: the page posts readyForNextPath only in the step that ends the
\* flash animation of a path after its five flash steps, every animation
\* that ends posts it, and every pathFound the page has received has either
\* its animation running or its one readyForNextPath posted: once for each
\* pathFound, and for no other event.
C38_ReadyOncePerPathFound ==
    [][/\ PostsReady <=> AnimationEnds
       /\ hist'.readySent + Len(page'.lightnings) = page'.allPaths
       /\ hist'.readySent \in {hist.readySent, hist.readySent + 1}]_vars

C38_Witness ==
    /\ page.allPaths = 2
    /\ hist.readySent = 2
    /\ page.lightnings = <<>>

====
